---- MODULE Spec2Model ----
(***************************************************************************)
(* A model of the tat controllers: user creation (UsersController.Create), *)
(* presence listing and creation (PresencesController), the private-topic  *)
(* consistency check (UsersController.Check) and the favorite-topic and    *)
(* notification handlers.                                                  *)
(*                                                                         *)
(* Strings are TLA+ strings handled with Len, SubSeq, Head, Tail and \o,   *)
(* so trimming, prefix and suffix tests, Index and Split are computed on   *)
(* the characters as the Go code computes them.                            *)
(*                                                                         *)
(* The package github.com/ovh/tat/models (the store) is called by the      *)
(* controllers but is not part of the modelled sources; its operations are *)
(* modelled from the specification of the store and are marked so.         *)
(***************************************************************************)
EXTENDS Integers, Sequences, FiniteSets, TLC

VARIABLES
    username_from_email, \* viper.GetBool("username_from_email")
    allowed_domains,     \* viper.GetString("allowed_domains")
    users,               \* the users collection of the store
    mails,               \* verification mails dispatched (go utils.SendVerifyEmail)
    events,              \* events dispatched (go models.WSUser / WSPresence)
    log,                 \* the requests answered so far, in order, with their response
    pc,                  \* racing Create requests: the line each one has reached
    req,                 \* racing Create requests: the JSON body bound by ctx.Bind
    resp,                \* racing Create requests: the response written
    topics,              \* the topics collection: path -> set of usernames with read access
    presences,           \* the presences collection: one record per (username, topic)
    members,             \* the groups collection: group name -> list of usernames
    now,                 \* time.Now().Unix()
    issued,              \* the secrets (passwords, tokens) the store generated so far
    outcomes,            \* the dispatched mails and events that ended, with their result
    answer               \* the response of the request handled last

cfgVars   == <<username_from_email, allowed_domains>>
raceVars  == <<pc, req, resp>>
topicVars == <<topics, presences, members, now, answer>>
vars == <<username_from_email, allowed_domains, users, mails, events, log,
          pc, req, resp, topics, presences, members, now, issued, outcomes, answer>>

-----------------------------------------------------------------------------
(* Bounds *)

\* Number of requests a sequential run answers.
MaxReq == 2

-----------------------------------------------------------------------------
(* Go's strings package, as the controllers use it *)

HasPrefix(s, prefix) ==
    Len(s) >= Len(prefix) /\ SubSeq(s, 1, Len(prefix)) = prefix

HasSuffix(s, suffix) ==
    Len(s) >= Len(suffix) /\ SubSeq(s, Len(s) - Len(suffix) + 1, Len(s)) = suffix

RECURSIVE IndexFrom(_, _, _)
IndexFrom(s, sub, i) ==
    IF i + Len(sub) - 1 > Len(s) THEN -1
    ELSE IF SubSeq(s, i, i + Len(sub) - 1) = sub THEN i - 1
    ELSE IndexFrom(s, sub, i + 1)

\* strings.Index: the 0-based index of the first occurrence of sub in s, or -1
Index(s, sub) == IndexFrom(s, sub, 1)

RECURSIVE TrimLeft(_)
TrimLeft(s) ==
    IF Len(s) > 0 /\ Head(s) = " " THEN TrimLeft(Tail(s)) ELSE s

RECURSIVE TrimRight(_)
TrimRight(s) ==
    IF Len(s) > 0 /\ SubSeq(s, Len(s), Len(s)) = " "
    THEN TrimRight(SubSeq(s, 1, Len(s) - 1))
    ELSE s

\* strings.TrimSpace
TrimSpace(s) == TrimRight(TrimLeft(s))

RECURSIVE Split(_, _)
\* strings.Split for a non-empty separator: Split("", ",") is <<"">>
Split(s, sep) ==
    LET i == Index(s, sep) IN
    IF i < 0 THEN <<s>>
    ELSE <<SubSeq(s, 1, i)>> \o Split(SubSeq(s, i + Len(sep) + 1, Len(s)), sep)

-----------------------------------------------------------------------------
(* Inputs *)

\* userCreateJSON.Username
UsernamesIn == {"bob", " al", "al"}
\* userCreateJSON.Fullname
FullnamesIn == {"Bob", "Bob ", "Amy", " A "}
\* userCreateJSON.Email
EmailsIn == {"ann@x.io", "ann@x.io ", "ann@z.io", "bob@y.io", " a@x.io"}
\* the bodies a Create request can carry
CreateBodies == [Username : UsernamesIn, Fullname : FullnamesIn, Email : EmailsIn]
\* the values of the allowed_domains setting
AllowedDomainsCfg == {"", "x.io,z.io"}

-----------------------------------------------------------------------------
(* The store (package models) *)

\* a user document as models.User.Insert persists it
NewUser(username, fullname, email) ==
    [Username |-> username, Fullname |-> fullname, Email |-> email,
     IsSystem |-> FALSE, IsAdmin |-> FALSE, IsArchived |-> FALSE,
     Contacts |-> <<>>, FavoritesTopics |-> {}, OffNotificationsTopics |-> {},
     FavoritesTags |-> {},
     Password |-> 0, Token |-> 0, Verified |-> FALSE, CanWriteNotifications |-> FALSE,
     ConvertedBy |-> "", AdminBy |-> "", ArchivedBy |-> ""]

IsEmailExists(email) == \E u \in users : u.Email = email
IsUsernameExists(username) == \E u \in users : u.Username = username
IsFullnameExists(fullname) == \E u \in users : u.Fullname = fullname

\* the unique constraints of the users collection refuse the document
InsertRefused(userIn) ==
    \E u \in users : \/ u.Username = userIn.Username
                     \/ u.Email = userIn.Email
                     \/ u.Fullname = userIn.Fullname

\* models.User.Insert: the collection after a successful insert
Insert(userIn) ==
    users \cup {NewUser(userIn.Username, userIn.Fullname, userIn.Email)}

-----------------------------------------------------------------------------
(* UsersController.Create *)

computeUsername(userJSON) ==
    IF username_from_email
    THEN LET i == Index(userJSON.Email, "@") IN
         IF i > 0 THEN SubSeq(userJSON.Email, 1, i) ELSE userJSON.Username
    ELSE userJSON.Username

\* TRUE when checkAllowedDomains returns nil
checkAllowedDomains(userJSON) ==
    IF allowed_domains # ""
    THEN LET allowedDomains == Split(allowed_domains, ",") IN
         \E k \in 1..Len(allowedDomains) :
             HasSuffix(userJSON.Email, "@" \o allowedDomains[k])
    ELSE TRUE

\* userIn as Create fills it from the bound body
UserIn(userJSON) ==
    [Username |-> computeUsername(userJSON),
     Fullname |-> TrimSpace(userJSON.Fullname),
     Email    |-> TrimSpace(userJSON.Email)]

\* the length test of Create
TooShort(userIn) ==
    Len(userIn.Username) < 3 \/ Len(userIn.Fullname) < 3 \/ Len(userIn.Email) < 7

\* the three uniqueness probes of Create
AlreadyExists(userJSON) ==
    \/ IsEmailExists(userJSON.Email)
    \/ IsUsernameExists(userJSON.Username)
    \/ IsFullnameExists(userJSON.Fullname)

Answer(userJSON, status, error) ==
    log' = Append(log, [req |-> userJSON, status |-> status, error |-> error])

\* one Create request, answered before the next one starts
Create(userJSON) ==
    /\ Len(log) < MaxReq
    /\ LET userIn == UserIn(userJSON) IN
       IF TooShort(userIn)
       THEN /\ Answer(userJSON, 500, "invalid")
            /\ UNCHANGED <<users, mails, events>>
       ELSE IF ~checkAllowedDomains(userJSON)
       THEN /\ Answer(userJSON, 403, "domain")
            /\ UNCHANGED <<users, mails, events>>
       ELSE IF AlreadyExists(userJSON)
       THEN /\ Answer(userJSON, 400, "exists")
            /\ UNCHANGED <<users, mails, events>>
       ELSE IF InsertRefused(userIn)
       THEN /\ Answer(userJSON, 500, "insert")
            /\ UNCHANGED <<users, mails, events>>
       ELSE /\ users' = Insert(userIn)
            /\ mails' = mails \cup {[Username |-> userIn.Username, Email |-> userIn.Email]}
            /\ events' = events \cup {[Action |-> "create", Username |-> userIn.Username]}
            /\ Answer(userJSON, 201, "")
    /\ UNCHANGED <<cfgVars, outcomes, issued, raceVars, topicVars>>

-----------------------------------------------------------------------------
(* Sequential Create requests on a fresh store *)

InitCreate ==
    /\ username_from_email \in BOOLEAN
    /\ allowed_domains \in AllowedDomainsCfg
    /\ users = {}
    /\ mails = {}
    /\ events = {}
    /\ log = <<>>
    /\ pc = <<>>
    /\ req = <<>>
    /\ resp = <<>>
    /\ topics = <<>>
    /\ presences = {}
    /\ members = <<>>
    /\ now = 0
    /\ issued = {}
    /\ outcomes = {}
    /\ answer = <<>>

NextCreate == \E userJSON \in CreateBodies : Create(userJSON)

SpecCreate == InitCreate /\ [][NextCreate]_vars

-----------------------------------------------------------------------------
(* Claims on sequential Create requests *)

\* the j-th answered request passed the length test and the domain test
OtherwiseValid(j) ==
    /\ ~TooShort(UserIn(log[j].req))
    /\ checkAllowedDomains(log[j].req)

\* two bodies carry the same email, or the same username, or the same fullname
SameSubmitted(a, b) ==
    a.Email = b.Email \/ a.Username = b.Username \/ a.Fullname = b.Fullname

\* two documents share a username, an email or a fullname
SharePersisted(u, v) ==
    u.Username = v.Username \/ u.Email = v.Email \/ u.Fullname = v.Fullname

\* C1: of two sequential Create requests that carry the same email, username
\* or fullname, the first one being created, the second is answered with the
\* conflict error (400) and the store holds one user only.
C1_SecondIsConflict ==
    \A i, j \in 1..Len(log) :
        ( /\ i < j
          /\ log[i].status = 201
          /\ OtherwiseValid(j)
          /\ SameSubmitted(log[i].req, log[j].req) )
        => /\ log[j].status = 400
           /\ log[j].error = "exists"

\* C3: a request whose persisted values (computed username, trimmed fullname
\* and email) already belong to a user created before it is rejected by the
\* uniqueness test of Create, and no two users share a username, an email or
\* a fullname.
C3_RejectsPersistedDuplicates ==
    /\ \A i, j \in 1..Len(log) :
          ( /\ i < j
            /\ log[i].status = 201
            /\ OtherwiseValid(j)
            /\ SharePersisted(UserIn(log[i].req), UserIn(log[j].req)) )
          => log[j].error = "exists"
    /\ \A u, v \in users : SharePersisted(u, v) => u = v

\* C4: every persisted user has trimmed fields of trimmed length >= 3, 3 and
\* 7, and a request whose trimmed fields are shorter is rejected by the length
\* test, the store being left as it was.
C4_PersistedTrimmedAndLong ==
    /\ \A u \in users :
          /\ TrimSpace(u.Username) = u.Username
          /\ TrimSpace(u.Fullname) = u.Fullname
          /\ TrimSpace(u.Email) = u.Email
          /\ Len(TrimSpace(u.Username)) >= 3
          /\ Len(TrimSpace(u.Fullname)) >= 3
          /\ Len(TrimSpace(u.Email)) >= 7
    /\ \A j \in 1..Len(log) :
          ( \/ Len(TrimSpace(computeUsername(log[j].req))) < 3
            \/ Len(TrimSpace(log[j].req.Fullname)) < 3
            \/ Len(TrimSpace(log[j].req.Email)) < 7 )
          => log[j].error = "invalid"

\* the trimmed email ends with "@" followed by an entry of the allowlist
TrimmedEmailAllowed(userJSON) ==
    LET allowedDomains == Split(allowed_domains, ",") IN
    \E k \in 1..Len(allowedDomains) :
        HasSuffix(TrimSpace(userJSON.Email), "@" \o allowedDomains[k])

\* C5: with an allowlist, a user is created only if the trimmed email ends
\* with "@" and an entry, a request is answered Forbidden otherwise, and a
\* request whose trimmed email matches an entry is never refused for its
\* domain; without an allowlist no request is refused for its domain.
C5_AllowlistOnTrimmedEmail ==
    \A j \in 1..Len(log) :
        /\ (allowed_domains = "") => log[j].error # "domain"
        /\ (allowed_domains # "") =>
              /\ log[j].status = 201 => TrimmedEmailAllowed(log[j].req)
              /\ log[j].error = "domain" => log[j].status = 403
              /\ TrimmedEmailAllowed(log[j].req) => log[j].error # "domain"

-----------------------------------------------------------------------------
(* Two Create requests racing: each call of the store is a step of its own *)

\* the two requests of the race
Racers == {"r1", "r2"}

NoAnswer == [status |-> 0, error |-> ""]

\* the handler returns after writing its response
Reply(c, status, error) ==
    /\ pc' = [pc EXCEPT ![c] = "done"]
    /\ resp' = [resp EXCEPT ![c] = [status |-> status, error |-> error]]

\* ctx.Bind, computeUsername, the trims, the length test and the domain test
CreateBind(c, userJSON) ==
    /\ pc[c] = "Bind"
    /\ req' = [req EXCEPT ![c] = userJSON]
    /\ IF TooShort(UserIn(userJSON))
       THEN Reply(c, 500, "invalid")
       ELSE IF ~checkAllowedDomains(userJSON)
       THEN Reply(c, 403, "domain")
       ELSE pc' = [pc EXCEPT ![c] = "IsEmailExists"] /\ UNCHANGED resp
    /\ UNCHANGED <<cfgVars, outcomes, issued, users, mails, events, log, topicVars>>

\* models.IsEmailExists(userJSON.Email), the first operand of the || chain
CreateIsEmailExists(c) ==
    /\ pc[c] = "IsEmailExists"
    /\ IF IsEmailExists(req[c].Email)
       THEN Reply(c, 400, "exists")
       ELSE pc' = [pc EXCEPT ![c] = "IsUsernameExists"] /\ UNCHANGED resp
    /\ UNCHANGED <<cfgVars, outcomes, issued, users, mails, events, log, req, topicVars>>

\* models.IsUsernameExists(userJSON.Username), evaluated when the first is false
CreateIsUsernameExists(c) ==
    /\ pc[c] = "IsUsernameExists"
    /\ IF IsUsernameExists(req[c].Username)
       THEN Reply(c, 400, "exists")
       ELSE pc' = [pc EXCEPT ![c] = "IsFullnameExists"] /\ UNCHANGED resp
    /\ UNCHANGED <<cfgVars, outcomes, issued, users, mails, events, log, req, topicVars>>

\* models.IsFullnameExists(userJSON.Fullname), evaluated when both are false
CreateIsFullnameExists(c) ==
    /\ pc[c] = "IsFullnameExists"
    /\ IF IsFullnameExists(req[c].Fullname)
       THEN Reply(c, 400, "exists")
       ELSE pc' = [pc EXCEPT ![c] = "Insert"] /\ UNCHANGED resp
    /\ UNCHANGED <<cfgVars, outcomes, issued, users, mails, events, log, req, topicVars>>

\* a handler that answers Created whatever userIn.Insert returns
CreateInsertErrorIgnored(c) ==
    /\ pc[c] = "Insert"
    /\ users' = IF InsertRefused(UserIn(req[c])) THEN users ELSE Insert(UserIn(req[c]))
    /\ mails' = mails \cup {[Username |-> UserIn(req[c]).Username,
                              Email |-> UserIn(req[c]).Email]}
    /\ events' = events \cup {[Action |-> "create", Username |-> UserIn(req[c]).Username]}
    /\ Reply(c, 201, "")
    /\ UNCHANGED <<cfgVars, outcomes, issued, log, req, topicVars>>

\* userIn.Insert(), its error test, the two go statements and the response
CreateInsert(c) ==
    /\ pc[c] = "Insert"
    /\ LET userIn == UserIn(req[c]) IN
       IF InsertRefused(userIn)
       THEN /\ Reply(c, 500, "insert")
            /\ UNCHANGED <<users, mails, events>>
       ELSE /\ users' = Insert(userIn)
            /\ mails' = mails \cup {[Username |-> userIn.Username, Email |-> userIn.Email]}
            /\ events' = events \cup {[Action |-> "create", Username |-> userIn.Username]}
            /\ Reply(c, 201, "")
    /\ UNCHANGED <<cfgVars, outcomes, issued, log, req, topicVars>>

InitRace ==
    /\ username_from_email \in BOOLEAN
    /\ allowed_domains \in AllowedDomainsCfg
    /\ users = {}
    /\ mails = {}
    /\ events = {}
    /\ log = <<>>
    /\ pc = [c \in Racers |-> "Bind"]
    /\ req = [c \in Racers |-> [Username |-> "", Fullname |-> "", Email |-> ""]]
    /\ resp = [c \in Racers |-> NoAnswer]
    /\ topics = <<>>
    /\ presences = {}
    /\ members = <<>>
    /\ now = 0
    /\ issued = {}
    /\ outcomes = {}
    /\ answer = <<>>

NextRace ==
    \E c \in Racers :
        \/ \E userJSON \in CreateBodies : CreateBind(c, userJSON)
        \/ CreateIsEmailExists(c)
        \/ CreateIsUsernameExists(c)
        \/ CreateIsFullnameExists(c)
        \/ CreateInsert(c)

SpecRace == InitRace /\ [][NextRace]_vars

-----------------------------------------------------------------------------
(* Claims on racing Create requests *)

\* both requests were bound and passed the length test and the domain test
BothValid ==
    \A c \in Racers :
        /\ pc[c] # "Bind"
        /\ ~TooShort(UserIn(req[c]))
        /\ checkAllowedDomains(req[c])

BothDone == \A c \in Racers : pc[c] = "done"

Created == {c \in Racers : resp[c].status = 201}

\* C2 as stated: two racing requests that carry the same username, email or
\* fullname end with exactly one created response and one error, and never is
\* there a second user.
C2_SameSubmittedOneWinner ==
    (BothValid /\ SameSubmitted(req["r1"], req["r2"])) =>
        /\ Cardinality(users) <= 1
        /\ BothDone =>
              /\ Cardinality(Created) = 1
              /\ Cardinality(users) = 1
              /\ \A c \in Racers \ Created : resp[c].status \in {400, 500}

\* C2 (amended): two racing requests that would persist the same username
\* (as computeUsername yields it), the same trimmed email or the same trimmed
\* fullname end with exactly one created response and one error, and never
\* is there a second user.
C2_SamePersistedOneWinner ==
    (BothValid /\ SharePersisted(UserIn(req["r1"]), UserIn(req["r2"]))) =>
        /\ Cardinality(users) <= 1
        /\ BothDone =>
              /\ Cardinality(Created) = 1
              /\ Cardinality(users) = 1
              /\ \A c \in Racers \ Created : resp[c].status \in {400, 500}

\* both requests passed the three probes before either inserted, and the
\* unique constraint refused the second insert
C2_Witness ==
    /\ BothDone
    /\ BothValid
    /\ SharePersisted(UserIn(req["r1"]), UserIn(req["r2"]))
    /\ resp["r1"] = [status |-> 201, error |-> ""]
    /\ resp["r2"] = [status |-> 500, error |-> "insert"]
    /\ req["r1"] = req["r2"]
    /\ Cardinality(users) = 1

-----------------------------------------------------------------------------
(* Topics and presences in the store (package models) *)

\* the users of the presence, favorite and check scenarios
Al == [NewUser("al", "Al One", "al@x.io") EXCEPT !.Username = "al"]
Bo == [NewUser("bo", "Bo Two", "bo@x.io") EXCEPT !.Username = "bo"]

\* utils.GetCtxUsername(ctx): the authenticated caller; "zz" has no user document
CtxUsernames == {"al", "bo", "zz"}

\* models.User.FindByUsername returns no error
UserFound(username) == \E u \in users : u.Username = username

\* the topic name as the store keys it: a leading "/" is added when missing
FixNameTopic(topicIn) ==
    IF topicIn # "" /\ Head(topicIn) # "/" THEN "/" \o topicIn ELSE topicIn

\* models.Topic.FindByTopic returns no error
TopicFound(topicIn) == FixNameTopic(topicIn) \in DOMAIN topics

\* models.Topic.IsUserReadAccess
IsUserReadAccess(topicIn, username) == username \in topics[FixNameTopic(topicIn)]

\* models.Presence.Upsert: one record per (user, topic), the new one replacing it
Upsert(username, topicIn, status) ==
    {p \in presences : ~(p.Username = username /\ p.Topic = FixNameTopic(topicIn))}
        \cup {[Username |-> username, Topic |-> FixNameTopic(topicIn),
               Status |-> status, Date |-> now]}

\* models.ListPresences: criteria.Topic is a comma-separated list of topics,
\* dateMin = -1 stands for an empty DateMinPresence
ListPresences(stored, criteriaTopic, dateMin) ==
    LET wanted == Split(criteriaTopic, ",") IN
    {p \in stored :
        /\ \E k \in 1..Len(wanted) : p.Topic = wanted[k]
        /\ dateMin >= 0 => p.Date >= dateMin}

-----------------------------------------------------------------------------
(* PresencesController *)

\* the window of CreateAndGet, in seconds
Window == 15

\* the latest time of a run
MaxTime == 16

\* the number of presence records of a run
MaxPresences == 2

\* the topic parameter of the route
TopicsIn ==
    {"/Private/al/DM/bo", "Private/al/DM/bo", "/Private/bo/DM/al",
     "/Private/al/DM", "/Private/al/DM/bo/x"}

\* the topics the store may hold
PresenceTopics ==
    {"/Private/al/DM/bo", "/Private/bo/DM/al", "/Private/al/DM", "/Private/al/DM/bo/x"}

\* presenceJSON.Status
StatusIn == {"online"}

\* "add / if search on topic"
AddSlash(criteriaTopic) ==
    IF criteriaTopic # "" /\ SubSeq(criteriaTopic, 1, 1) # "/"
    THEN "/" \o criteriaTopic
    ELSE criteriaTopic

\* a filter that leaves the mirror topic of a DM topic out
TopicCriteriaNoMirror(ctxUsername, criteriaTopic) ==
    LET topic == AddSlash(criteriaTopic)
        topicDM == "/Private/" \o ctxUsername \o "/DM/"
    IN  IF HasPrefix(topic, topicDM) /\ Len(Split(topic, "/")) # 5
        THEN [wrong |-> TRUE, topic |-> topic]
        ELSE [wrong |-> FALSE, topic |-> topic]

\* a filter built without the test on the number of parts
TopicCriteriaNoLenTest(ctxUsername, criteriaTopic) ==
    LET topic == AddSlash(criteriaTopic)
        topicDM == "/Private/" \o ctxUsername \o "/DM/"
    IN  IF HasPrefix(topic, topicDM)
        THEN LET part == Split(topic, "/") IN
             [wrong |-> FALSE,
              topic |-> topic \o "," \o "/Private/" \o part[5] \o "/DM/" \o ctxUsername]
        ELSE [wrong |-> FALSE, topic |-> topic]

\* a filter that mirrors the DM topics of every user, not only the caller's
TopicCriteriaAnyOwner(ctxUsername, criteriaTopic) ==
    LET topic == AddSlash(criteriaTopic)
        part == Split(topic, "/")
    IN  IF Len(part) >= 4 /\ part[2] = "Private" /\ part[4] = "DM"
        THEN IF Len(part) # 5
             THEN [wrong |-> TRUE, topic |-> topic]
             ELSE [wrong |-> FALSE,
                   topic |-> topic \o "," \o "/Private/" \o part[5] \o "/DM/" \o ctxUsername]
        ELSE [wrong |-> FALSE, topic |-> topic]

\* listWithCriteria, from the added "/" to the topic filter handed to the
\* store; wrong stands for the abort "Wrong topic name for DM"
TopicCriteria(ctxUsername, criteriaTopic) ==
    LET topic == AddSlash(criteriaTopic)
        topicDM == "/Private/" \o ctxUsername \o "/DM/"
    IN  IF HasPrefix(topic, topicDM)
        THEN LET part == Split(topic, "/") IN
             IF Len(part) # 5
             THEN [wrong |-> TRUE, topic |-> topic]
             ELSE [wrong |-> FALSE,
                   topic |-> topic \o "," \o "/Private/" \o part[5] \o "/DM/" \o ctxUsername]
        ELSE [wrong |-> FALSE, topic |-> topic]

\* a response without a presence list
Refusal(status, error) ==
    [status |-> status, error |-> error, queried |-> FALSE, criteria |-> "",
     presences |-> {}]

\* listWithCriteria: the response it writes, stored being the presences of
\* the store when it runs
listWithCriteria(stored, ctxUsername, criteriaTopic, dateMin) ==
    IF ~UserFound(ctxUsername) THEN Refusal(500, "user")
    ELSE IF ~TopicFound(criteriaTopic) THEN Refusal(400, "topic")
    ELSE IF ~IsUserReadAccess(criteriaTopic, ctxUsername) THEN Refusal(403, "access")
    ELSE LET c == TopicCriteria(ctxUsername, criteriaTopic) IN
         IF c.wrong THEN Refusal(500, "dm")
         ELSE [status |-> 200, error |-> "", queried |-> TRUE, criteria |-> c.topic,
               presences |-> ListPresences(stored, c.topic, dateMin)]

\* no request was handled in the last step
NoRequest ==
    [op |-> "", who |-> "", topic |-> "", status |-> 0, error |-> "",
     queried |-> FALSE, criteria |-> "", presences |-> {}]

\* the request and its response, as the caller sees them
Responded(op, ctxUsername, topicIn, r) ==
    answer' = [op |-> op, who |-> ctxUsername, topic |-> topicIn,
               status |-> r.status, error |-> r.error, queried |-> r.queried,
               criteria |-> r.criteria, presences |-> r.presences]

\* PresencesController.List with no other query parameter than the topic
List(ctxUsername, topicIn) ==
    /\ Responded("List", ctxUsername, topicIn, listWithCriteria(presences, ctxUsername, topicIn, -1))
    /\ UNCHANGED <<cfgVars, outcomes, issued, users, mails, events, log, raceVars,
                   topics, presences, members, now>>

\* a create that writes the presence without the read-access test
CreateAndGetNoAccessTest(ctxUsername, topicIn, status, stored) ==
    /\ IF ~TopicFound(topicIn)
       THEN /\ Responded("CreateAndGet", ctxUsername, topicIn, Refusal(500, "topic"))
            /\ UNCHANGED <<presences, events>>
       ELSE IF ~UserFound(ctxUsername)
       THEN /\ Responded("CreateAndGet", ctxUsername, topicIn, Refusal(500, "user"))
            /\ UNCHANGED <<presences, events>>
       ELSE IF ~stored
       THEN /\ Responded("CreateAndGet", ctxUsername, topicIn, Refusal(500, "upsert"))
            /\ UNCHANGED <<presences, events>>
       ELSE /\ Cardinality(Upsert(ctxUsername, topicIn, status)) <= MaxPresences
            /\ presences' = Upsert(ctxUsername, topicIn, status)
            /\ events' = events \cup {[Action |-> "create", Username |-> ctxUsername]}
            /\ Responded("CreateAndGet", ctxUsername, topicIn,
                         listWithCriteria(Upsert(ctxUsername, topicIn, status),
                                          ctxUsername, topicIn, now - Window))
    /\ UNCHANGED <<cfgVars, outcomes, issued, users, mails, log, raceVars, topics, members, now>>

\* a CreateAndGet that lists whether or not create aborted
CreateAndGetNoAbortTest(ctxUsername, topicIn, status, stored) ==
    /\ IF TopicFound(topicIn) /\ UserFound(ctxUsername)
          /\ IsUserReadAccess(topicIn, ctxUsername) /\ stored
       THEN /\ Cardinality(Upsert(ctxUsername, topicIn, status)) <= MaxPresences
            /\ presences' = Upsert(ctxUsername, topicIn, status)
            /\ events' = events \cup {[Action |-> "create", Username |-> ctxUsername]}
            /\ Responded("CreateAndGet", ctxUsername, topicIn,
                         listWithCriteria(Upsert(ctxUsername, topicIn, status),
                                          ctxUsername, topicIn, now - Window))
       ELSE /\ Responded("CreateAndGet", ctxUsername, topicIn,
                         listWithCriteria(presences, ctxUsername, topicIn, now - Window))
            /\ UNCHANGED <<presences, events>>
    /\ UNCHANGED <<cfgVars, outcomes, issued, users, mails, log, raceVars, topics, members, now>>

\* PresencesController.CreateAndGet: create, then the listing of the last
\* 15 seconds unless create aborted; stored tells whether Upsert succeeded
CreateAndGet(ctxUsername, topicIn, status, stored) ==
    /\ IF ~TopicFound(topicIn)
       THEN /\ Responded("CreateAndGet", ctxUsername, topicIn, Refusal(500, "topic"))
            /\ UNCHANGED <<presences, events>>
       ELSE IF ~UserFound(ctxUsername)
       THEN /\ Responded("CreateAndGet", ctxUsername, topicIn, Refusal(500, "user"))
            /\ UNCHANGED <<presences, events>>
       ELSE IF ~IsUserReadAccess(topicIn, ctxUsername)
       THEN /\ Responded("CreateAndGet", ctxUsername, topicIn, Refusal(403, "access"))
            /\ UNCHANGED <<presences, events>>
       ELSE IF ~stored
       THEN /\ Responded("CreateAndGet", ctxUsername, topicIn, Refusal(500, "upsert"))
            /\ UNCHANGED <<presences, events>>
       ELSE /\ Cardinality(Upsert(ctxUsername, topicIn, status)) <= MaxPresences
            /\ presences' = Upsert(ctxUsername, topicIn, status)
            /\ events' = events \cup {[Action |-> "create", Username |-> ctxUsername]}
            /\ Responded("CreateAndGet", ctxUsername, topicIn,
                         listWithCriteria(Upsert(ctxUsername, topicIn, status),
                                          ctxUsername, topicIn, now - Window))
    /\ UNCHANGED <<cfgVars, outcomes, issued, users, mails, log, raceVars, topics, members, now>>

\* time passes
Tick ==
    /\ now + Window + 1 <= MaxTime
    /\ now' = now + Window + 1
    /\ answer' = NoRequest
    /\ UNCHANGED <<cfgVars, outcomes, issued, users, mails, events, log, raceVars,
                   topics, presences, members>>

\* the owner of a private topic: the third part of its path
Owner(topic) == Split(topic, "/")[3]

InitPresence ==
    /\ username_from_email = FALSE
    /\ allowed_domains = ""
    /\ users = {Al, Bo}
    /\ mails = {}
    /\ events = {}
    /\ log = <<>>
    /\ pc = <<>>
    /\ req = <<>>
    /\ resp = <<>>
    /\ \E existing \in SUBSET PresenceTopics :
       \E shared \in SUBSET (existing \cap {"/Private/al/DM/bo"}) :
          topics = [t \in existing |->
                       IF t \in shared THEN {"al", "bo"} ELSE {Owner(t)}]
    /\ presences = {}
    /\ members = <<>>
    /\ now = 0
    /\ issued = {}
    /\ outcomes = {}
    /\ answer = NoRequest

NextPresence ==
    \/ \E u \in CtxUsernames, t \in TopicsIn : List(u, t)
    \/ \E u \in CtxUsernames, t \in TopicsIn, st \in StatusIn, stored \in BOOLEAN :
          CreateAndGet(u, t, st, stored)
    \/ Tick

SpecPresence == InitPresence /\ [][NextPresence]_vars

-----------------------------------------------------------------------------
(* Claims on presence listing *)

\* the DM topic of self with peer
DM(self, peer) == "/Private/" \o self \o "/DM/" \o peer

\* the topic exists and the user can read it
Readable(topic, username) == topic \in DOMAIN topics /\ username \in topics[topic]

\* C6: DM presence visibility is symmetric: when both DM topics of two users
\* exist and are readable by their owner, the presence a wrote at
\* /Private/a/DM/b is in the list b gets at /Private/b/DM/a.
C6_DMSymmetric ==
    \A a, b \in {"al", "bo"} :
        ( /\ a # b
          /\ answer.op = "List"
          /\ answer.who = b
          /\ FixNameTopic(answer.topic) = DM(b, a)
          /\ Readable(DM(a, b), a)
          /\ Readable(DM(b, a), b) )
        => /\ answer.status = 200
           /\ \A p \in presences :
                 (p.Username = a /\ p.Topic = DM(a, b)) => p \in answer.presences

\* bo lists his DM topic with al and gets the presence al wrote on her side
C6_Witness ==
    /\ answer.op = "List"
    /\ answer.who = "bo"
    /\ answer.topic = "/Private/bo/DM/al"
    /\ answer.status = 200
    /\ \E p \in answer.presences : p.Username = "al" /\ p.Topic = "/Private/al/DM/bo"

\* the parts of the topic, the leading "/" added
Parts(topicIn) == Split(AddSlash(topicIn), "/")

\* the path is /Private/<requester>/DM, with or without further parts
DMShaped(ctxUsername, topicIn) ==
    /\ Len(Parts(topicIn)) >= 4
    /\ Parts(topicIn)[1] = ""
    /\ Parts(topicIn)[2] = "Private"
    /\ Parts(topicIn)[3] = ctxUsername
    /\ Parts(topicIn)[4] = "DM"

\* the listing was refused before the store query; with the topic readable
\* the refusal is the fatal "Wrong topic name for DM"
RefusedAsWrongDM ==
    /\ answer.status # 200
    /\ ~answer.queried
    /\ answer.presences = {}
    /\ ( /\ UserFound(answer.who)
         /\ Readable(FixNameTopic(answer.topic), answer.who) )
       => (answer.status = 500 /\ answer.error = "dm")

\* C7 as stated: listing a DM-shaped path of the requester that has not
\* exactly 5 parts, /Private/alice/DM included, fails with the fatal error
\* and never reaches the store query.
C7_WrongPartsFatal ==
    ( /\ answer.op = "List"
      /\ DMShaped(answer.who, answer.topic)
      /\ Len(Parts(answer.topic)) # 5 )
    => RefusedAsWrongDM

\* C7 (amended): listing a path that starts with /Private/<requester>/DM/,
\* the separator included, and has not exactly 5 parts never reaches the store
\* query; it fails with the fatal error when the topic exists and is readable,
\* and was refused earlier otherwise.
C7_PrefixedWrongPartsFatal ==
    ( /\ answer.op = "List"
      /\ HasPrefix(AddSlash(answer.topic), "/Private/" \o answer.who \o "/DM/")
      /\ Len(Parts(answer.topic)) # 5 )
    => RefusedAsWrongDM

\* al lists /Private/al/DM/bo/x, which exists and which she can read
C7_Witness ==
    /\ answer.op = "List"
    /\ answer.who = "al"
    /\ answer.topic = "/Private/al/DM/bo/x"
    /\ Readable("/Private/al/DM/bo/x", "al")
    /\ answer.status = 500
    /\ answer.error = "dm"

-----------------------------------------------------------------------------
(* UsersController.Check *)

\* viper.GetString("default_group")
DefaultGroup == "all"

\* checkTopicsUserJSON.Username
CheckUsernames == {"al", "zz"}

\* topicNames of checkTopics
topicNames == <<"", "Tasks", "Bookmarks", "Notifications">>

\* the short names whose creation the store refuses during one Check
FailingIn == {{}} \cup {{k} : k \in 1..Len(topicNames)}

\* the topic name checkTopics builds for a short name
PrivateTopicName(username, shortName) ==
    IF shortName # ""
    THEN ("/Private/" \o username) \o "/" \o shortName
    ELSE "/Private/" \o username

\* models.User.CreatePrivateTopic: the topics after a successful creation
CreatePrivateTopic(tps, username, shortName) ==
    [t \in DOMAIN tps \cup {PrivateTopicName(username, shortName)} |->
        IF t = PrivateTopicName(username, shortName) THEN {username} ELSE tps[t]]

\* the groups of a user, by name (models.User.GetGroupsOnlyName)
GetGroupsOnlyName(username) ==
    {g \in DOMAIN members : \E k \in 1..Len(members[g]) : members[g][k] = username}

\* a loop body that creates the topic whenever fixing is asked
checkTopicCreatesAnyway(found, fixTopics, created) ==
    [info   |-> (IF found THEN <<"OK">> ELSE <<"KO : not exist">>)
                \o (IF fixTopics
                    THEN <<IF created THEN "created" ELSE "Error while creating">>
                    ELSE <<>>),
     create |-> fixTopics]

\* a loop body that reports "created" without testing the error
checkTopicErrorIgnored(found, fixTopics, created) ==
    IF ~found
    THEN [info   |-> <<"KO : not exist">> \o (IF fixTopics THEN <<"created">> ELSE <<>>),
          create |-> fixTopics]
    ELSE [info |-> <<"OK">>, create |-> FALSE]

\* the body of the loop of checkTopics for one topic: what it appends to
\* topicsInfo and whether it calls CreatePrivateTopic; found and created are
\* the answers of FindByTopic and CreatePrivateTopic
checkTopic(found, fixTopics, created) ==
    IF ~found
    THEN [info   |-> <<"KO : not exist">>
                     \o (IF fixTopics
                         THEN <<IF created THEN "created" ELSE "Error while creating">>
                         ELSE <<>>),
          create |-> fixTopics]
    ELSE [info |-> <<"OK">>, create |-> FALSE]

RECURSIVE checkTopicsFrom(_, _, _, _, _)
\* the loop of checkTopics from the k-th short name on; acc holds the topics
\* of the store, topicsInfo and the calls of CreatePrivateTopic so far, and
\* failing the short names whose creation the store refuses
checkTopicsFrom(k, acc, fixTopics, username, failing) ==
    IF k > Len(topicNames)
    THEN acc
    ELSE LET topicName == PrivateTopicName(username, topicNames[k])
             one == checkTopic(topicName \in DOMAIN acc.topics, fixTopics, k \notin failing)
         IN  checkTopicsFrom(k + 1,
                [topics  |-> IF one.create /\ k \notin failing
                             THEN CreatePrivateTopic(acc.topics, username, topicNames[k])
                             ELSE acc.topics,
                 info    |-> Append(acc.info, one.info),
                 creates |-> IF one.create THEN Append(acc.creates, topicName)
                             ELSE acc.creates,
                 failed  |-> IF one.create /\ k \in failing
                             THEN acc.failed \cup {topicName}
                             ELSE acc.failed],
                fixTopics, username, failing)

checkTopics(fixTopics, username, failing) ==
    checkTopicsFrom(1, [topics |-> topics, info |-> <<>>, creates |-> <<>>, failed |-> {}],
                    fixTopics, username, failing)

\* checkDefaultGroup: its report and whether the user was added; fetched and
\* added are the answers of GetGroupsOnlyName and AddDefaultGroup
checkDefaultGroup(fixDefaultGroup, username, fetched, added) ==
    IF ~fetched THEN [info |-> "Error while fetching user groups", add |-> FALSE]
    ELSE IF DefaultGroup \in GetGroupsOnlyName(username)
    THEN [info |-> "user in all OK", add |-> FALSE]
    ELSE IF fixDefaultGroup
    THEN IF added
         THEN [info |-> "user added in default group all", add |-> TRUE]
         ELSE [info |-> "error of AddDefaultGroup", add |-> FALSE]
    ELSE [info |-> "user in default group all KO", add |-> FALSE]

\* UsersController.Check; failing, fetched and added are what the store answers
Check(username, fixPrivateTopics, fixDefaultGroup, failing, fetched, added) ==
    /\ Len(log) < MaxReq
    /\ IF ~UserFound(username)
       THEN /\ log' = Append(log, [username |-> username, status |-> 400])
            /\ UNCHANGED <<topics, members>>
       ELSE LET t == checkTopics(fixPrivateTopics, username, failing)
                g == checkDefaultGroup(fixDefaultGroup, username, fetched, added)
            IN  /\ topics' = t.topics
                /\ members' = IF g.add
                              THEN [members EXCEPT ![DefaultGroup] = Append(@, username)]
                              ELSE members
                /\ log' = Append(log,
                      [username |-> username, status |-> 201,
                       fixPrivateTopics |-> fixPrivateTopics,
                       topics |-> t.info, defaultGroup |-> g.info,
                       creates |-> t.creates, failed |-> t.failed,
                       before |-> DOMAIN topics])
    /\ UNCHANGED <<cfgVars, outcomes, issued, users, mails, events, raceVars, presences, now, answer>>

\* the four canonical private topics of a user
CanonicalTopics(username) ==
    {PrivateTopicName(username, topicNames[k]) : k \in 1..Len(topicNames)}

InitCheck ==
    /\ username_from_email = FALSE
    /\ allowed_domains = ""
    /\ users = {Al}
    /\ mails = {}
    /\ events = {}
    /\ log = <<>>
    /\ pc = <<>>
    /\ req = <<>>
    /\ resp = <<>>
    /\ \E existing \in SUBSET CanonicalTopics("al") :
          topics = [t \in existing |-> {"al"}]
    /\ presences = {}
    /\ members \in {[g \in {DefaultGroup} |-> <<>>], [g \in {DefaultGroup} |-> <<"al">>]}
    /\ now = 0
    /\ issued = {}
    /\ outcomes = {}
    /\ answer = <<>>

NextCheck ==
    \E username \in CheckUsernames, fixPrivateTopics \in BOOLEAN, fixDefaultGroup \in BOOLEAN,
       failing \in FailingIn, fetched \in BOOLEAN, added \in BOOLEAN :
        Check(username, fixPrivateTopics, fixDefaultGroup, failing, fetched, added)

SpecCheck == InitCheck /\ [][NextCheck]_vars

-----------------------------------------------------------------------------
(* Claims on Check *)

\* the i-th request was a Check of an existing user
Checked(i) == log[i].status = 201

\* every topic of the i-th report is "OK" and nothing else
AllOK(i) == \A k \in 1..Len(topicNames) : log[i].topics[k] = <<"OK">>

\* the i-th report says "created" for some topic
SomeCreated(i) ==
    \E k \in 1..Len(topicNames) :
        \E n \in 1..Len(log[i].topics[k]) : log[i].topics[k][n] = "created"

\* the i-th Check called CreatePrivateTopic once for each topic that was
\* missing and for no other
CreatedMissingOnce(i) ==
    /\ \A t \in CanonicalTopics(log[i].username) \ log[i].before :
          Cardinality({n \in 1..Len(log[i].creates) : log[i].creates[n] = t}) = 1
    /\ \A n \in 1..Len(log[i].creates) : log[i].creates[n] \notin log[i].before

\* C8: Check with fixPrivateTopics is idempotent: a run on a user missing a
\* canonical topic, the creations succeeding, reports "created" and creates
\* each missing topic once; a later run reports the four topics "OK" and
\* creates nothing.
C8_CheckIdempotent ==
    \A i \in 1..Len(log) :
        ( /\ Checked(i)
          /\ log[i].fixPrivateTopics
          /\ log[i].failed = {} )
        => /\ (CanonicalTopics(log[i].username) \ log[i].before # {}) => SomeCreated(i)
           /\ CreatedMissingOnce(i)
           /\ \A j \in (i + 1)..Len(log) :
                 (Checked(j) /\ log[j].username = log[i].username)
                 => (AllOK(j) /\ log[j].creates = <<>>)

\* a first run that created a topic, a second run with fixPrivateTopics that
\* found the four of them
C8_Witness ==
    /\ Len(log) >= 2
    /\ Checked(1) /\ log[1].fixPrivateTopics /\ log[1].failed = {} /\ SomeCreated(1)
    /\ Checked(2) /\ log[2].fixPrivateTopics /\ AllOK(2) /\ log[2].creates = <<>>

\* the single outcome the claim gives for a topic
OneOutcome(found, fixing, failed) ==
    IF found THEN <<"OK">>
    ELSE IF ~fixing THEN <<"KO : not exist">>
    ELSE IF failed THEN <<"Error while creating">>
    ELSE <<"created">>

\* what Check records for a topic: the missing topic is always reported, and
\* the result of the creation follows it when fixing is set
Outcomes(found, fixing, failed) ==
    IF found THEN <<"OK">>
    ELSE IF ~fixing THEN <<"KO : not exist">>
    ELSE IF failed THEN <<"KO : not exist", "Error while creating">>
    ELSE <<"KO : not exist", "created">>

\* C9 as stated: Check records exactly one outcome per canonical topic: "OK"
\* if found, "created" if missing, fixing and created, "KO : not exist" only
\* if missing and not fixing, the failure if the creation fails.
C9_OneOutcomePerTopic ==
    \A i \in 1..Len(log) : Checked(i) =>
        \A k \in 1..Len(topicNames) :
            LET t == PrivateTopicName(log[i].username, topicNames[k]) IN
            log[i].topics[k] =
                OneOutcome(t \in log[i].before, log[i].fixPrivateTopics, t \in log[i].failed)

\* C9 (amended): per canonical topic Check records "OK" if found and
\* "KO : not exist" whenever it is missing, followed when fixing is set by
\* "created" or, if the creation fails, by "Error while creating".
C9_OutcomesPerTopic ==
    \A i \in 1..Len(log) : Checked(i) =>
        \A k \in 1..Len(topicNames) :
            LET t == PrivateTopicName(log[i].username, topicNames[k]) IN
            log[i].topics[k] =
                Outcomes(t \in log[i].before, log[i].fixPrivateTopics, t \in log[i].failed)

\* one report with a topic found, one created and one whose creation failed
C9_Witness ==
    \E i \in 1..Len(log) :
        /\ Checked(i)
        /\ \E k \in 1..Len(topicNames) : log[i].topics[k] = <<"OK">>
        /\ \E k \in 1..Len(topicNames) : log[i].topics[k] = <<"KO : not exist", "created">>
        /\ \E k \in 1..Len(topicNames) :
              log[i].topics[k] = <<"KO : not exist", "Error while creating">>

-----------------------------------------------------------------------------
(* Favorite topics and notifications *)

\* the topic parameter of the favorite and notification routes
FavTopicsIn == {"/Open", "Open", "/Private/bo"}

\* the topics the store may hold
FavTopics == {"/Open", "/Private/bo"}

\* the user document of a username
UserOf(username) == CHOOSE u \in users : u.Username = username

\* models.User.AddFavoriteTopic: the users after the update
WithFavoriteTopic(username, topic) ==
    {IF u.Username = username
     THEN [u EXCEPT !.FavoritesTopics = @ \cup {topic}] ELSE u : u \in users}

\* models.User.RemoveFavoriteTopic: the users after the update
WithoutFavoriteTopic(username, topic) ==
    {IF u.Username = username
     THEN [u EXCEPT !.FavoritesTopics = @ \ {topic}] ELSE u : u \in users}

\* models.User.EnableNotificationsTopic: the topic leaves the disabled set
WithNotifications(username, topic) ==
    {IF u.Username = username
     THEN [u EXCEPT !.OffNotificationsTopics = @ \ {topic}] ELSE u : u \in users}

\* models.User.DisableNotificationsTopic: the topic joins the disabled set
WithoutNotifications(username, topic) ==
    {IF u.Username = username
     THEN [u EXCEPT !.OffNotificationsTopics = @ \cup {topic}] ELSE u : u \in users}

\* a handler that adds the favorite without the read-access test
AddFavoriteTopicNoAccessTest(ctxUsername, topicIn, saved) ==
    /\ IF ~UserFound(ctxUsername)
       THEN /\ Responded("AddFavoriteTopic", ctxUsername, topicIn, Refusal(500, "user"))
            /\ UNCHANGED users
       ELSE IF ~TopicFound(topicIn)
       THEN /\ Responded("AddFavoriteTopic", ctxUsername, topicIn, Refusal(400, "topic"))
            /\ UNCHANGED users
       ELSE IF ~saved
       THEN /\ Responded("AddFavoriteTopic", ctxUsername, topicIn, Refusal(500, "store"))
            /\ UNCHANGED users
       ELSE /\ users' = WithFavoriteTopic(ctxUsername, FixNameTopic(topicIn))
            /\ Responded("AddFavoriteTopic", ctxUsername, topicIn, Refusal(201, ""))
    /\ UNCHANGED <<cfgVars, outcomes, issued, mails, events, log, raceVars, topics, presences, members, now>>

\* UsersController.AddFavoriteTopic; saved tells whether the store update succeeded
AddFavoriteTopic(ctxUsername, topicIn, saved) ==
    /\ IF ~UserFound(ctxUsername)
       THEN /\ Responded("AddFavoriteTopic", ctxUsername, topicIn, Refusal(500, "user"))
            /\ UNCHANGED users
       ELSE IF ~TopicFound(topicIn)
       THEN /\ Responded("AddFavoriteTopic", ctxUsername, topicIn, Refusal(400, "topic"))
            /\ UNCHANGED users
       ELSE IF ~IsUserReadAccess(topicIn, ctxUsername)
       THEN /\ Responded("AddFavoriteTopic", ctxUsername, topicIn, Refusal(403, "access"))
            /\ UNCHANGED users
       ELSE IF ~saved
       THEN /\ Responded("AddFavoriteTopic", ctxUsername, topicIn, Refusal(500, "store"))
            /\ UNCHANGED users
       ELSE /\ users' = WithFavoriteTopic(ctxUsername, FixNameTopic(topicIn))
            /\ Responded("AddFavoriteTopic", ctxUsername, topicIn, Refusal(201, ""))
    /\ UNCHANGED <<cfgVars, outcomes, issued, mails, events, log, raceVars, topics, presences, members, now>>

\* a handler that removes the favorite only from a readable topic
RemoveFavoriteTopicAccessTested(ctxUsername, topicIn, saved) ==
    /\ IF ~UserFound(ctxUsername)
       THEN /\ Responded("RemoveFavoriteTopic", ctxUsername, topicIn, Refusal(500, "user"))
            /\ UNCHANGED users
       ELSE IF ~TopicFound(topicIn)
       THEN /\ Responded("RemoveFavoriteTopic", ctxUsername, topicIn, Refusal(400, "topic"))
            /\ UNCHANGED users
       ELSE IF ~IsUserReadAccess(topicIn, ctxUsername)
       THEN /\ Responded("RemoveFavoriteTopic", ctxUsername, topicIn, Refusal(403, "access"))
            /\ UNCHANGED users
       ELSE IF ~saved
       THEN /\ Responded("RemoveFavoriteTopic", ctxUsername, topicIn, Refusal(500, "store"))
            /\ UNCHANGED users
       ELSE /\ users' = WithoutFavoriteTopic(ctxUsername, FixNameTopic(topicIn))
            /\ Responded("RemoveFavoriteTopic", ctxUsername, topicIn, Refusal(200, ""))
    /\ UNCHANGED <<cfgVars, outcomes, issued, mails, events, log, raceVars, topics, presences, members, now>>


\* UsersController.RemoveFavoriteTopic
RemoveFavoriteTopic(ctxUsername, topicIn, saved) ==
    /\ IF ~UserFound(ctxUsername)
       THEN /\ Responded("RemoveFavoriteTopic", ctxUsername, topicIn, Refusal(500, "user"))
            /\ UNCHANGED users
       ELSE IF ~saved
       THEN /\ Responded("RemoveFavoriteTopic", ctxUsername, topicIn, Refusal(500, "store"))
            /\ UNCHANGED users
       ELSE /\ users' = WithoutFavoriteTopic(ctxUsername, FixNameTopic(topicIn))
            /\ Responded("RemoveFavoriteTopic", ctxUsername, topicIn, Refusal(200, ""))
    /\ UNCHANGED <<cfgVars, outcomes, issued, mails, events, log, raceVars, topics, presences, members, now>>

\* UsersController.EnableNotificationsTopic
EnableNotificationsTopic(ctxUsername, topicIn, saved) ==
    /\ IF ~UserFound(ctxUsername)
       THEN /\ Responded("EnableNotificationsTopic", ctxUsername, topicIn, Refusal(500, "user"))
            /\ UNCHANGED users
       ELSE IF ~TopicFound(topicIn)
       THEN /\ Responded("EnableNotificationsTopic", ctxUsername, topicIn, Refusal(400, "topic"))
            /\ UNCHANGED users
       ELSE IF ~IsUserReadAccess(topicIn, ctxUsername)
       THEN /\ Responded("EnableNotificationsTopic", ctxUsername, topicIn, Refusal(403, "access"))
            /\ UNCHANGED users
       ELSE IF ~saved
       THEN /\ Responded("EnableNotificationsTopic", ctxUsername, topicIn, Refusal(500, "store"))
            /\ UNCHANGED users
       ELSE /\ users' = WithNotifications(ctxUsername, FixNameTopic(topicIn))
            /\ Responded("EnableNotificationsTopic", ctxUsername, topicIn, Refusal(201, ""))
    /\ UNCHANGED <<cfgVars, outcomes, issued, mails, events, log, raceVars, topics, presences, members, now>>

\* UsersController.DisableNotificationsTopic
DisableNotificationsTopic(ctxUsername, topicIn, saved) ==
    /\ IF ~UserFound(ctxUsername)
       THEN /\ Responded("DisableNotificationsTopic", ctxUsername, topicIn, Refusal(500, "user"))
            /\ UNCHANGED users
       ELSE IF ~saved
       THEN /\ Responded("DisableNotificationsTopic", ctxUsername, topicIn, Refusal(500, "store"))
            /\ UNCHANGED users
       ELSE /\ users' = WithoutNotifications(ctxUsername, FixNameTopic(topicIn))
            /\ Responded("DisableNotificationsTopic", ctxUsername, topicIn, Refusal(200, ""))
    /\ UNCHANGED <<cfgVars, outcomes, issued, mails, events, log, raceVars, topics, presences, members, now>>

\* the read access of a user to a topic is granted or revoked
SetReadAccess(topic, username, allowed) ==
    /\ topic \in DOMAIN topics
    /\ topics' = [topics EXCEPT ![topic] =
                     IF allowed THEN @ \cup {username} ELSE @ \ {username}]
    /\ topics' # topics
    /\ answer' = NoRequest
    /\ UNCHANGED <<cfgVars, outcomes, issued, users, mails, events, log, raceVars, presences, members, now>>

\* a topic is deleted
DeleteTopic(topic) ==
    /\ topic \in DOMAIN topics
    /\ topics' = [t \in DOMAIN topics \ {topic} |-> topics[t]]
    /\ answer' = NoRequest
    /\ UNCHANGED <<cfgVars, outcomes, issued, users, mails, events, log, raceVars, presences, members, now>>

InitFav ==
    /\ username_from_email = FALSE
    /\ allowed_domains = ""
    /\ users = {Al, Bo}
    /\ mails = {}
    /\ events = {}
    /\ log = <<>>
    /\ pc = <<>>
    /\ req = <<>>
    /\ resp = <<>>
    /\ \E existing \in SUBSET FavTopics :
       \E readable \in SUBSET existing :
          topics = [t \in existing |-> IF t \in readable THEN {"al"} ELSE {}]
    /\ presences = {}
    /\ members = <<>>
    /\ now = 0
    /\ issued = {}
    /\ outcomes = {}
    /\ answer = NoRequest

NextFav ==
    \/ \E u \in {"al", "zz"}, t \in FavTopicsIn, saved \in BOOLEAN :
          \/ AddFavoriteTopic(u, t, saved)
          \/ RemoveFavoriteTopic(u, t, saved)
          \/ EnableNotificationsTopic(u, t, saved)
          \/ DisableNotificationsTopic(u, t, saved)
    \/ \E t \in FavTopics, allowed \in BOOLEAN : SetReadAccess(t, "al", allowed)
    \/ \E t \in FavTopics : DeleteTopic(t)

SpecFav == InitFav /\ [][NextFav]_vars

-----------------------------------------------------------------------------
(* Claims on favorite topics and notifications *)

\* the step adds topic t to the favorites of u, or enables its notifications
Gains(u, t) ==
    /\ UserFound(u)
    /\ \/ t \notin UserOf(u).FavoritesTopics /\ t \in UserOf(u)'.FavoritesTopics
       \/ t \in UserOf(u).OffNotificationsTopics /\ t \notin UserOf(u)'.OffNotificationsTopics

\* C10: AddFavoriteTopic and EnableNotificationsTopic change the favorites or
\* the notifications of a user only when the topic exists and the user can
\* read it at the time of the call; when the topic exists and the user cannot
\* read it they answer Forbidden and leave the user as it was.
C10_ReadAccessWhenAdded ==
    [][ /\ \A u \in {"al", "bo"}, t \in FavTopics : Gains(u, t) => Readable(t, u)
        /\ ( /\ answer'.op \in {"AddFavoriteTopic", "EnableNotificationsTopic"}
             /\ UserFound(answer'.who)
             /\ TopicFound(answer'.topic)
             /\ ~IsUserReadAccess(answer'.topic, answer'.who) )
           => (answer'.status = 403 /\ users' = users)
      ]_vars

\* al has a favorite, lost the read access to it, and is refused when adding
\* it again
C10_Witness ==
    /\ answer.op = "AddFavoriteTopic"
    /\ answer.who = "al"
    /\ answer.status = 403
    /\ FixNameTopic(answer.topic) \in UserOf("al").FavoritesTopics

\* the document of a username among the given user documents
DocOf(docs, username) == CHOOSE u \in docs : u.Username = username

\* C11: RemoveFavoriteTopic and DisableNotificationsTopic look up no topic and
\* test no read access: for an existing calling user they are answered 200
\* unless the store update itself fails, whatever the topic's existence, the
\* user's read access and the content of the user's sets, and after the 200
\* the topic is out of the favorites, respectively in the disabled set.
C11_RemovalNeedsNoAccess ==
    [][ ( /\ answer'.op \in {"RemoveFavoriteTopic", "DisableNotificationsTopic"}
          /\ UserFound(answer'.who) )
        => /\ answer'.status = 200 \/ answer'.error = "store"
           /\ (answer'.status = 200 /\ answer'.op = "RemoveFavoriteTopic")
                 => FixNameTopic(answer'.topic) \notin DocOf(users', answer'.who).FavoritesTopics
           /\ (answer'.status = 200 /\ answer'.op = "DisableNotificationsTopic")
                 => FixNameTopic(answer'.topic) \in DocOf(users', answer'.who).OffNotificationsTopics
      ]_vars

\* al removed a favorite from a topic that exists and that al can no longer
\* read, while another favorite of al remains
C11_Witness ==
    /\ answer.op = "RemoveFavoriteTopic"
    /\ answer.who = "al"
    /\ answer.status = 200
    /\ TopicFound(answer.topic)
    /\ ~IsUserReadAccess(answer.topic, "al")
    /\ UserOf("al").FavoritesTopics # {}

-----------------------------------------------------------------------------
(* User lifecycle: verification, reset, conversion, admin, archive, rename, *)
(* update                                                                   *)

\* Number of secrets (passwords and tokens) the store generates in a run.
MaxSecrets == 4

\* the secret the store generates next: one it never generated before
NewSecret == Cardinality(issued) + 1

\* utils.GetCtxUsername(ctx) on the admin routes
Root == "root"

\* the username field of the lifecycle bodies
LifeUsernamesIn == {"tat.system.a", "bob", "rob"}

\* renameUserJSON.NewUsername
NewUsernamesIn == {"rob", "bob"}

\* updateUserJSON.NewFullname
NewFullnamesIn == {"Rob ", " "}

\* updateUserJSON.NewEmail
NewEmailsIn == {"rob@x.io", "a@x.io"}

\* userResetJSON.Username and userResetJSON.Email
ResetUsernamesIn == {"bob ", "bo"}
ResetEmailsIn == {"bob@y.io", " ann@x.io"}

\* the username and tokenVerify parameters of the verify route; token 0 is
\* the empty string
VerifyUsernamesIn == {"bob", "tat.system.a", ""}
TokensIn == 0..MaxSecrets

\* an active user whose username carries the reserved prefix
SysA == [NewUser("tat.system.a", "Sys A", "a@x.io") EXCEPT !.Verified = TRUE, !.Password = 1]

\* a user created and not yet verified, holding a pending token
Bob == [NewUser("bob", "Bob", "bob@y.io") EXCEPT !.Token = 2]

\* the users with one document replaced
Replaced(old, new) == (users \ {old}) \cup {new}

\* the store refuses every update of an archived user
Terminal(user) == user.IsArchived

\* models.User.ConvertToSystem
ConvertToSystem(user, userAdmin, canWriteNotifications) ==
    [user EXCEPT !.IsSystem = TRUE, !.Password = NewSecret,
                 !.ConvertedBy = userAdmin,
                 !.CanWriteNotifications = canWriteNotifications]

\* models.User.ResetSystemUserPassword
ResetSystemUserPassword(user) == [user EXCEPT !.Password = NewSecret]

\* models.User.ConvertToAdmin
ConvertToAdmin(user, userAdmin) == [user EXCEPT !.IsAdmin = TRUE, !.AdminBy = userAdmin]

\* models.User.Archive
ArchiveUser(user, userAdmin) == [user EXCEPT !.IsArchived = TRUE, !.ArchivedBy = userAdmin]

\* models.User.Rename is refused for a username some user holds
RenameRefused(user, newUsername) ==
    Terminal(user) \/ \E v \in users : v.Username = newUsername

\* models.User.Rename
RenameUser(user, newUsername) == [user EXCEPT !.Username = newUsername]

\* models.User.Update is refused for a fullname or email another user holds
UpdateRefused(user, newFullname, newEmail) ==
    \/ Terminal(user)
    \/ \E v \in users \ {user} : v.Fullname = newFullname \/ v.Email = newEmail

\* models.User.Update
UpdateUser(user, newFullname, newEmail) ==
    [user EXCEPT !.Fullname = newFullname, !.Email = newEmail]

\* models.User.Verify succeeds on the pending token of the user, and only on it
VerifyRefused(username, tokenVerify) ==
    \/ ~UserFound(username)
    \/ Terminal(UserOf(username))
    \/ UserOf(username).Token = 0
    \/ UserOf(username).Token # tokenVerify

\* models.User.Verify: a new password, the token consumed
VerifyUser(user) ==
    [user EXCEPT !.Password = NewSecret, !.Token = 0, !.Verified = TRUE]

\* models.User.AskReset is refused unless username and email are those of a user
AskResetRefused(userIn) ==
    ~\E v \in users : /\ v.Username = userIn.Username
                      /\ v.Email = userIn.Email
                      /\ ~Terminal(v)

\* models.User.AskReset: a new pending token
AskReset(user) == [user EXCEPT !.Token = NewSecret]

\* the response of a lifecycle request, as the caller sees it
LifeAnswer(op, username, status, error, secret) ==
    [op |-> op, who |-> Root, target |-> username, status |-> status,
     error |-> error, secret |-> secret]

\* a request answered with an error: nothing is written
Rejected(op, username, status, error) ==
    /\ answer' = LifeAnswer(op, username, status, error, 0)
    /\ UNCHANGED <<users, issued>>

-----------------------------------------------------------------------------
(* UsersController: the lifecycle handlers *)

\* the response of a Verify request, with the token it presented
VerifyAnswer(username, tokenVerify, status, error, secret) ==
    [op |-> "Verify", who |-> username, target |-> username, token |-> tokenVerify,
     status |-> status, error |-> error, secret |-> secret]

\* a Verify answered with an error: nothing is written, no event is sent
VerifyRejected(username, tokenVerify, status, error) ==
    /\ answer' = VerifyAnswer(username, tokenVerify, status, error, 0)
    /\ UNCHANGED <<users, issued, events>>

\* a Verify that answers 200 whatever the store returns
VerifyErrorIgnored(username, tokenVerify) ==
    /\ Cardinality(issued) < MaxSecrets
    /\ IF username = "" \/ tokenVerify = 0
       THEN VerifyRejected(username, tokenVerify, 400, "empty")
       ELSE IF VerifyRefused(username, tokenVerify)
       THEN VerifyRejected(username, tokenVerify, 200, "verify")
       ELSE /\ users' = Replaced(UserOf(username), VerifyUser(UserOf(username)))
            /\ issued' = issued \cup {NewSecret}
            /\ answer' = VerifyAnswer(username, tokenVerify, 200, "", NewSecret)
            /\ events' = IF UserOf(username).Verified THEN events
                         ELSE events \cup {[Action |-> "verify", Username |-> username]}
    /\ UNCHANGED <<cfgVars, outcomes, mails, log, raceVars, topics, presences, members, now>>

\* UsersController.Verify
Verify(username, tokenVerify) ==
    /\ Cardinality(issued) < MaxSecrets
    /\ IF username = "" \/ tokenVerify = 0
       THEN VerifyRejected(username, tokenVerify, 400, "empty")
       ELSE IF VerifyRefused(username, tokenVerify)
       THEN VerifyRejected(username, tokenVerify, 500, "verify")
       ELSE /\ users' = Replaced(UserOf(username), VerifyUser(UserOf(username)))
            /\ issued' = issued \cup {NewSecret}
            /\ answer' = VerifyAnswer(username, tokenVerify, 200, "", NewSecret)
            /\ events' = IF UserOf(username).Verified THEN events
                         ELSE events \cup {[Action |-> "verify", Username |-> username]}
    /\ UNCHANGED <<cfgVars, outcomes, mails, log, raceVars, topics, presences, members, now>>

\* the user body Reset builds from the request
ResetUserIn(userJSON) ==
    [Username |-> TrimSpace(userJSON.Username), Email |-> TrimSpace(userJSON.Email)]

\* a Reset that sends the mail whatever AskReset returns
ResetMailAnyway(userJSON) ==
    /\ Cardinality(issued) < MaxSecrets
    /\ IF Len(ResetUserIn(userJSON).Username) < 3 \/ Len(ResetUserIn(userJSON).Email) < 7
       THEN Rejected("Reset", userJSON.Username, 500, "invalid") /\ UNCHANGED mails
       ELSE IF AskResetRefused(ResetUserIn(userJSON))
       THEN /\ Rejected("Reset", userJSON.Username, 500, "store")
            /\ mails' = mails \cup {[Username |-> ResetUserIn(userJSON).Username,
                                     Email |-> ResetUserIn(userJSON).Email,
                                     Token |-> 0]}
       ELSE /\ users' = Replaced(UserOf(ResetUserIn(userJSON).Username),
                                 AskReset(UserOf(ResetUserIn(userJSON).Username)))
            /\ issued' = issued \cup {NewSecret}
            /\ mails' = mails \cup {[Username |-> ResetUserIn(userJSON).Username,
                                     Email |-> ResetUserIn(userJSON).Email,
                                     Token |-> NewSecret]}
            /\ answer' = LifeAnswer("Reset", userJSON.Username, 201, "", 0)
    /\ UNCHANGED <<cfgVars, outcomes, events, log, raceVars, topics, presences, members, now>>

\* UsersController.Reset
Reset(userJSON) ==
    /\ Cardinality(issued) < MaxSecrets
    /\ IF Len(ResetUserIn(userJSON).Username) < 3 \/ Len(ResetUserIn(userJSON).Email) < 7
       THEN Rejected("Reset", userJSON.Username, 500, "invalid") /\ UNCHANGED mails
       ELSE IF AskResetRefused(ResetUserIn(userJSON))
       THEN Rejected("Reset", userJSON.Username, 500, "store") /\ UNCHANGED mails
       ELSE /\ users' = Replaced(UserOf(ResetUserIn(userJSON).Username),
                                 AskReset(UserOf(ResetUserIn(userJSON).Username)))
            /\ issued' = issued \cup {NewSecret}
            /\ mails' = mails \cup {[Username |-> ResetUserIn(userJSON).Username,
                                     Email |-> ResetUserIn(userJSON).Email,
                                     Token |-> NewSecret]}
            /\ answer' = LifeAnswer("Reset", userJSON.Username, 201, "", 0)
    /\ UNCHANGED <<cfgVars, outcomes, events, log, raceVars, topics, presences, members, now>>

\* a Convert without the test on IsSystem
ConvertNoSystemTest(username, canWriteNotifications) ==
    /\ Cardinality(issued) < MaxSecrets
    /\ IF ~HasPrefix(username, "tat.system")
       THEN Rejected("Convert", username, 400, "prefix")
       ELSE IF ~UserFound(username)
       THEN Rejected("Convert", username, 400, "missing")
       ELSE IF Terminal(UserOf(username))
       THEN Rejected("Convert", username, 400, "store")
       ELSE /\ users' = Replaced(UserOf(username),
                                 ConvertToSystem(UserOf(username), Root, canWriteNotifications))
            /\ issued' = issued \cup {NewSecret}
            /\ answer' = LifeAnswer("Convert", username, 200, "", NewSecret)
    /\ UNCHANGED <<cfgVars, outcomes, mails, events, log, raceVars, topics, presences, members, now>>

\* a Convert without the test on the prefix of the username
ConvertNoPrefixTest(username, canWriteNotifications) ==
    /\ Cardinality(issued) < MaxSecrets
    /\ IF ~UserFound(username)
       THEN Rejected("Convert", username, 400, "missing")
       ELSE IF UserOf(username).IsSystem
       THEN Rejected("Convert", username, 400, "system")
       ELSE IF Terminal(UserOf(username))
       THEN Rejected("Convert", username, 400, "store")
       ELSE /\ users' = Replaced(UserOf(username),
                                 ConvertToSystem(UserOf(username), Root, canWriteNotifications))
            /\ issued' = issued \cup {NewSecret}
            /\ answer' = LifeAnswer("Convert", username, 200, "", NewSecret)
    /\ UNCHANGED <<cfgVars, outcomes, mails, events, log, raceVars, topics, presences, members, now>>

\* UsersController.Convert
Convert(username, canWriteNotifications) ==
    /\ Cardinality(issued) < MaxSecrets
    /\ IF ~HasPrefix(username, "tat.system")
       THEN Rejected("Convert", username, 400, "prefix")
       ELSE IF ~UserFound(username)
       THEN Rejected("Convert", username, 400, "missing")
       ELSE IF UserOf(username).IsSystem
       THEN Rejected("Convert", username, 400, "system")
       ELSE IF Terminal(UserOf(username))
       THEN Rejected("Convert", username, 400, "store")
       ELSE /\ users' = Replaced(UserOf(username),
                                 ConvertToSystem(UserOf(username), Root, canWriteNotifications))
            /\ issued' = issued \cup {NewSecret}
            /\ answer' = LifeAnswer("Convert", username, 200, "", NewSecret)
    /\ UNCHANGED <<cfgVars, outcomes, mails, events, log, raceVars, topics, presences, members, now>>

\* a ResetSystemUser without the test on IsSystem
ResetSystemUserNoSystemTest(username) ==
    /\ Cardinality(issued) < MaxSecrets
    /\ IF ~HasPrefix(username, "tat.system")
       THEN Rejected("ResetSystemUser", username, 400, "prefix")
       ELSE IF ~UserFound(username)
       THEN Rejected("ResetSystemUser", username, 400, "missing")
       ELSE IF Terminal(UserOf(username))
       THEN Rejected("ResetSystemUser", username, 400, "store")
       ELSE /\ users' = Replaced(UserOf(username), ResetSystemUserPassword(UserOf(username)))
            /\ issued' = issued \cup {NewSecret}
            /\ answer' = LifeAnswer("ResetSystemUser", username, 200, "", NewSecret)
    /\ UNCHANGED <<cfgVars, outcomes, mails, events, log, raceVars, topics, presences, members, now>>

\* UsersController.ResetSystemUser
ResetSystemUser(username) ==
    /\ Cardinality(issued) < MaxSecrets
    /\ IF ~HasPrefix(username, "tat.system")
       THEN Rejected("ResetSystemUser", username, 400, "prefix")
       ELSE IF ~UserFound(username)
       THEN Rejected("ResetSystemUser", username, 400, "missing")
       ELSE IF ~UserOf(username).IsSystem
       THEN Rejected("ResetSystemUser", username, 400, "notsystem")
       ELSE IF Terminal(UserOf(username))
       THEN Rejected("ResetSystemUser", username, 400, "store")
       ELSE /\ users' = Replaced(UserOf(username), ResetSystemUserPassword(UserOf(username)))
            /\ issued' = issued \cup {NewSecret}
            /\ answer' = LifeAnswer("ResetSystemUser", username, 200, "", NewSecret)
    /\ UNCHANGED <<cfgVars, outcomes, mails, events, log, raceVars, topics, presences, members, now>>

\* a SetAdmin without the test on IsAdmin
SetAdminNoAdminTest(username) ==
    /\ IF ~UserFound(username)
       THEN Rejected("SetAdmin", username, 400, "missing")
       ELSE IF Terminal(UserOf(username))
       THEN Rejected("SetAdmin", username, 400, "store")
       ELSE /\ users' = Replaced(UserOf(username), ConvertToAdmin(UserOf(username), Root))
            /\ answer' = LifeAnswer("SetAdmin", username, 201, "", 0)
            /\ UNCHANGED issued
    /\ UNCHANGED <<cfgVars, outcomes, mails, events, log, raceVars, topics, presences, members, now>>

\* UsersController.SetAdmin
SetAdmin(username) ==
    /\ IF ~UserFound(username)
       THEN Rejected("SetAdmin", username, 400, "missing")
       ELSE IF UserOf(username).IsAdmin
       THEN Rejected("SetAdmin", username, 400, "admin")
       ELSE IF Terminal(UserOf(username))
       THEN Rejected("SetAdmin", username, 400, "store")
       ELSE /\ users' = Replaced(UserOf(username), ConvertToAdmin(UserOf(username), Root))
            /\ answer' = LifeAnswer("SetAdmin", username, 201, "", 0)
            /\ UNCHANGED issued
    /\ UNCHANGED <<cfgVars, outcomes, mails, events, log, raceVars, topics, presences, members, now>>

\* UsersController.Archive
Archive(username) ==
    /\ IF ~UserFound(username)
       THEN Rejected("Archive", username, 400, "missing")
       ELSE IF UserOf(username).IsArchived
       THEN Rejected("Archive", username, 400, "archived")
       ELSE /\ users' = Replaced(UserOf(username), ArchiveUser(UserOf(username), Root))
            /\ answer' = LifeAnswer("Archive", username, 201, "", 0)
            /\ UNCHANGED issued
    /\ UNCHANGED <<cfgVars, outcomes, mails, events, log, raceVars, topics, presences, members, now>>

\* a Rename that answers 201 whatever the store returns
RenameErrorIgnored(username, newUsername) ==
    /\ IF ~UserFound(username)
       THEN Rejected("Rename", username, 400, "missing")
       ELSE IF RenameRefused(UserOf(username), newUsername)
       THEN Rejected("Rename", username, 201, "store")
       ELSE /\ users' = Replaced(UserOf(username), RenameUser(UserOf(username), newUsername))
            /\ answer' = LifeAnswer("Rename", username, 201, "", 0)
            /\ UNCHANGED issued
    /\ UNCHANGED <<cfgVars, outcomes, mails, events, log, raceVars, topics, presences, members, now>>

\* UsersController.Rename
Rename(username, newUsername) ==
    /\ IF ~UserFound(username)
       THEN Rejected("Rename", username, 400, "missing")
       ELSE IF RenameRefused(UserOf(username), newUsername)
       THEN Rejected("Rename", username, 400, "store")
       ELSE /\ users' = Replaced(UserOf(username), RenameUser(UserOf(username), newUsername))
            /\ answer' = LifeAnswer("Rename", username, 201, "", 0)
            /\ UNCHANGED issued
    /\ UNCHANGED <<cfgVars, outcomes, mails, events, log, raceVars, topics, presences, members, now>>

\* an Update that answers 201 whatever the store returns
UpdateErrorIgnored(username, newFullname, newEmail) ==
    /\ IF ~UserFound(username)
       THEN Rejected("Update", username, 400, "missing")
       ELSE IF TrimSpace(newFullname) = "" \/ TrimSpace(newEmail) = ""
       THEN Rejected("Update", username, 400, "invalid")
       ELSE IF UpdateRefused(UserOf(username), TrimSpace(newFullname), TrimSpace(newEmail))
       THEN Rejected("Update", username, 201, "store")
       ELSE /\ users' = Replaced(UserOf(username),
                                 UpdateUser(UserOf(username), TrimSpace(newFullname),
                                            TrimSpace(newEmail)))
            /\ answer' = LifeAnswer("Update", username, 201, "", 0)
            /\ UNCHANGED issued
    /\ UNCHANGED <<cfgVars, outcomes, mails, events, log, raceVars, topics, presences, members, now>>

\* UsersController.Update
Update(username, newFullname, newEmail) ==
    /\ IF ~UserFound(username)
       THEN Rejected("Update", username, 400, "missing")
       ELSE IF TrimSpace(newFullname) = "" \/ TrimSpace(newEmail) = ""
       THEN Rejected("Update", username, 400, "invalid")
       ELSE IF UpdateRefused(UserOf(username), TrimSpace(newFullname), TrimSpace(newEmail))
       THEN Rejected("Update", username, 400, "store")
       ELSE /\ users' = Replaced(UserOf(username),
                                 UpdateUser(UserOf(username), TrimSpace(newFullname),
                                            TrimSpace(newEmail)))
            /\ answer' = LifeAnswer("Update", username, 201, "", 0)
            /\ UNCHANGED issued
    /\ UNCHANGED <<cfgVars, outcomes, mails, events, log, raceVars, topics, presences, members, now>>

InitLife ==
    /\ username_from_email = FALSE
    /\ allowed_domains = ""
    /\ users = {SysA, Bob}
    /\ mails = {}
    /\ events = {}
    /\ log = <<>>
    /\ pc = <<>>
    /\ req = <<>>
    /\ resp = <<>>
    /\ topics = <<>>
    /\ presences = {}
    /\ members = <<>>
    /\ now = 0
    /\ issued = {1, 2}
    /\ outcomes = {}
    /\ answer = LifeAnswer("", "", 0, "", 0)

NextLife ==
    \/ \E username \in VerifyUsernamesIn, tokenVerify \in TokensIn :
          Verify(username, tokenVerify)
    \/ \E username \in ResetUsernamesIn, email \in ResetEmailsIn :
          Reset([Username |-> username, Email |-> email])
    \/ \E username \in LifeUsernamesIn : Convert(username, TRUE)
    \/ \E username \in LifeUsernamesIn :
          \/ ResetSystemUser(username)
          \/ SetAdmin(username)
          \/ Archive(username)
    \/ \E username \in LifeUsernamesIn, newUsername \in NewUsernamesIn :
          Rename(username, newUsername)
    \/ \E username \in LifeUsernamesIn, newFullname \in NewFullnamesIn,
          newEmail \in NewEmailsIn :
          Update(username, newFullname, newEmail)

SpecLife == InitLife /\ [][NextLife]_vars

-----------------------------------------------------------------------------
(* Claims on the lifecycle handlers *)

\* the step answers a request of the given kind
Handles(op) == answer'.op = op

\* the step answers with an error and writes neither a user nor a secret
RejectedUnchanged == answer'.status >= 400 /\ users' = users /\ issued' = issued

\* the step converts its target and answers with a password never generated before
ConvertedWithNewPassword ==
    /\ answer'.status = 200
    /\ answer'.secret \notin issued
    /\ \E u \in users' : u.Username = answer'.target
    /\ DocOf(users', answer'.target).IsSystem
    /\ DocOf(users', answer'.target).Password = answer'.secret

\* Convert on a username without the prefix, and on a user that is already a
\* system user
ConvertRejections ==
    /\ ~HasPrefix(answer'.target, "tat.system") => RejectedUnchanged
    /\ ( /\ HasPrefix(answer'.target, "tat.system")
         /\ UserFound(answer'.target)
         /\ UserOf(answer'.target).IsSystem )
       => (RejectedUnchanged /\ answer'.error = "system")

C13_AlreadyInStateRejected ==
    [][ /\ ( /\ Handles("SetAdmin")
             /\ UserFound(answer'.target)
             /\ UserOf(answer'.target).IsAdmin ) => RejectedUnchanged
        /\ ( /\ Handles("Archive")
             /\ UserFound(answer'.target)
             /\ UserOf(answer'.target).IsArchived ) => RejectedUnchanged
      ]_vars

\* an admin that is not archived has been refused a second SetAdmin
C13_Witness ==
    /\ answer.op = "SetAdmin"
    /\ answer.status = 400
    /\ answer.error = "admin"
    /\ UserOf(answer.target).IsAdmin
    /\ ~UserOf(answer.target).IsArchived

\* the lifecycle operations that change a user
LifecycleOps == {"Convert", "ResetSystemUser", "SetAdmin", "Rename", "Update"}

C15_TokenSingleUse ==
    [][ /\ Handles("Verify") =>
             IF answer'.status = 200
             THEN /\ answer'.token # 0
                  /\ UserFound(answer'.target)
                  /\ UserOf(answer'.target).Token = answer'.token
                  /\ DocOf(users', answer'.target).Token = 0
                  /\ answer'.secret \notin issued
             ELSE /\ answer'.status >= 400
                  /\ answer'.secret = 0
                  /\ users' = users /\ issued' = issued
        /\ \A v \in users' :
             (v.Token # 0 /\ ~\E u \in users : u.Token = v.Token) => v.Token \notin issued
      ]_vars

\* bob verified with the token 2 and presented the same token again: refused
C15_Witness ==
    /\ answer.op = "Verify"
    /\ answer.target = "bob"
    /\ answer.token = 2
    /\ answer.status = 500
    /\ UserFound("bob")
    /\ UserOf("bob").Verified
    /\ UserOf("bob").Token = 0
    /\ UserOf("bob").Password # 0
    /\ UserOf("bob").Email = "bob@y.io"

\* the step regenerates the password of its target and writes nothing else
PasswordOnly ==
    /\ answer'.status = 200
    /\ answer'.secret \notin issued
    /\ users' = Replaced(UserOf(answer'.target),
                         [UserOf(answer'.target) EXCEPT !.Password = answer'.secret])

-----------------------------------------------------------------------------
(* Claims on the presence writes *)

\* C16: a presence is written, and a presence event dispatched, only by a
\* create whose topic exists, whose user is found and holds read access to
\* the topic when the call is made; a create that misses one of the three is
\* answered with an error, runs no query, writes no presence and dispatches
\* no event.
C16_PresenceNeedsTopicAndAccess ==
    [][ /\ (presences' # presences \/ events' # events)
           => /\ answer'.op = "CreateAndGet"
              /\ TopicFound(answer'.topic)
              /\ UserFound(answer'.who)
              /\ IsUserReadAccess(answer'.topic, answer'.who)
        /\ ( /\ answer'.op = "CreateAndGet"
             /\ \/ ~TopicFound(answer'.topic)
                \/ ~UserFound(answer'.who)
                \/ ~IsUserReadAccess(answer'.topic, answer'.who) )
           => /\ answer'.status >= 400
              /\ ~answer'.queried
              /\ presences' = presences
              /\ events' = events
      ]_vars

\* a presence has been written and a create on a topic its user cannot read
\* has been refused
C16_Witness ==
    /\ answer.op = "CreateAndGet"
    /\ answer.status = 403
    /\ UserFound(answer.who)
    /\ TopicFound(answer.topic)
    /\ presences # {}
    /\ \A p \in presences : p.Topic # FixNameTopic(answer.topic) \/ p.Username # answer.who

-----------------------------------------------------------------------------
(* Contacts *)

\* the username parameter of the contact routes
ContactsIn == {"al", "bo", "zz"}

\* the usernames of a list of contacts
ContactNames(contacts) == {contacts[i].Username : i \in 1..Len(contacts)}

\* a list of contacts without the entries of a username
RECURSIVE WithoutName(_, _)
WithoutName(contacts, username) ==
    IF contacts = <<>> THEN <<>>
    ELSE IF Head(contacts).Username = username
    THEN WithoutName(Tail(contacts), username)
    ELSE <<Head(contacts)>> \o WithoutName(Tail(contacts), username)

\* models.User.AddContact: appended unless the username is already a contact
WithContact(username, contactUsername, contactFullname) ==
    {IF u.Username = username /\ contactUsername \notin ContactNames(u.Contacts)
     THEN [u EXCEPT !.Contacts = Append(@, [Username |-> contactUsername,
                                            Fullname |-> contactFullname])]
     ELSE u : u \in users}

\* models.User.RemoveContact: removed by username, nothing to do when absent
WithoutContact(username, contactUsername) ==
    {IF u.Username = username
     THEN [u EXCEPT !.Contacts = WithoutName(@, contactUsername)]
     ELSE u : u \in users}

\* the response of a contact request, as the caller sees it
ContactAnswer(op, ctxUsername, contactIn, status, error) ==
    [op |-> op, who |-> ctxUsername, contact |-> contactIn, status |-> status,
     error |-> error]

\* an AddContact that does not look the contact up
AddContactNoLookup(ctxUsername, contactIn) ==
    /\ IF ~UserFound(ctxUsername)
       THEN /\ answer' = ContactAnswer("AddContact", ctxUsername, contactIn, 500, "user")
            /\ UNCHANGED users
       ELSE /\ users' = WithContact(ctxUsername, contactIn, "")
            /\ answer' = ContactAnswer("AddContact", ctxUsername, contactIn, 201, "")
    /\ UNCHANGED <<cfgVars, outcomes, issued, mails, events, log, raceVars, topics, presences, members, now>>

\* UsersController.AddContact
AddContact(ctxUsername, contactIn) ==
    /\ IF ~UserFound(ctxUsername)
       THEN /\ answer' = ContactAnswer("AddContact", ctxUsername, contactIn, 500, "user")
            /\ UNCHANGED users
       ELSE IF ~UserFound(contactIn)
       THEN /\ answer' = ContactAnswer("AddContact", ctxUsername, contactIn, 400, "contact")
            /\ UNCHANGED users
       ELSE /\ users' = WithContact(ctxUsername, UserOf(contactIn).Username,
                                    UserOf(contactIn).Fullname)
            /\ answer' = ContactAnswer("AddContact", ctxUsername, contactIn, 201, "")
    /\ UNCHANGED <<cfgVars, outcomes, issued, mails, events, log, raceVars, topics, presences, members, now>>

\* UsersController.RemoveContact
RemoveContact(ctxUsername, contactIn) ==
    /\ IF ~UserFound(ctxUsername)
       THEN /\ answer' = ContactAnswer("RemoveContact", ctxUsername, contactIn, 500, "user")
            /\ UNCHANGED users
       ELSE /\ users' = WithoutContact(ctxUsername, contactIn)
            /\ answer' = ContactAnswer("RemoveContact", ctxUsername, contactIn, 200, "")
    /\ UNCHANGED <<cfgVars, outcomes, issued, mails, events, log, raceVars, topics, presences, members, now>>

InitContacts ==
    /\ username_from_email = FALSE
    /\ allowed_domains = ""
    /\ users = {Al, Bo}
    /\ mails = {}
    /\ events = {}
    /\ log = <<>>
    /\ pc = <<>>
    /\ req = <<>>
    /\ resp = <<>>
    /\ topics = <<>>
    /\ presences = {}
    /\ members = <<>>
    /\ now = 0
    /\ issued = {}
    /\ outcomes = {}
    /\ answer = ContactAnswer("", "", "", 0, "")

NextContacts ==
    \E ctxUsername \in CtxUsernames, contactIn \in ContactsIn :
       \/ AddContact(ctxUsername, contactIn)
       \/ RemoveContact(ctxUsername, contactIn)

SpecContacts == InitContacts /\ [][NextContacts]_vars

-----------------------------------------------------------------------------
(* Claims on contacts *)

\* no two contacts of the user carry the same username
NoDuplicateContact(u) ==
    \A i, j \in 1..Len(u.Contacts) :
       i # j => u.Contacts[i].Username # u.Contacts[j].Username

\* the contacts of a username among the given user documents
ContactsOf(docs, username) == DocOf(docs, username).Contacts

-----------------------------------------------------------------------------
(* Side effects: the mails and events the handlers dispatch with "go" *)

\* the Create bodies of this part
EffectBodies ==
    {b \in CreateBodies : b.Email = "ann@x.io" /\ b.Fullname \in {"Amy", "Bob "}}

\* the callers and topics of the presence writes of this part
EffectCallers == {"al", "zz"}
EffectTopicsIn == {"/Private/al", "Private/bo"}

\* the results a dispatched mail or event can end with
Results == {"done", "failed"}

\* the mails and events dispatched so far
Dispatched == mails \cup events

\* the dispatched mail or event has ended
Ended(e) == \E o \in outcomes : o.effect = e

\* a function started with "go" returns: nothing reads what it returns
SideEffectEnds(e, result) ==
    /\ e \in Dispatched
    /\ ~Ended(e)
    /\ outcomes' = outcomes \cup {[effect |-> e, result |-> result]}
    /\ UNCHANGED <<cfgVars, issued, users, mails, events, log, raceVars, topicVars>>

InitEffects ==
    /\ username_from_email = FALSE
    /\ allowed_domains = ""
    /\ users = {Al, Bob}
    /\ mails = {}
    /\ events = {}
    /\ log = <<>>
    /\ pc = <<>>
    /\ req = <<>>
    /\ resp = <<>>
    /\ topics = [t \in {"/Private/al", "/Private/bo"} |-> {Owner(t)}]
    /\ presences = {}
    /\ members = <<>>
    /\ now = 0
    /\ issued = {1, 2}
    /\ outcomes = {}
    /\ answer = NoRequest

NextEffects ==
    \/ \E userJSON \in EffectBodies : Create(userJSON)
    \/ \E username \in ResetUsernamesIn, email \in ResetEmailsIn :
          Reset([Username |-> username, Email |-> email])
    \/ \E ctxUsername \in EffectCallers, topicIn \in EffectTopicsIn, stored \in BOOLEAN :
          CreateAndGet(ctxUsername, topicIn, "online", stored)
    \/ \E e \in Dispatched, result \in Results : SideEffectEnds(e, result)

SpecEffects == InitEffects /\ [][NextEffects]_vars

-----------------------------------------------------------------------------
(* Claims on the side effects *)

\* the step inserts a user with this username
Inserts(username) == \E u \in users' \ users : u.Username = username

\* the step is a presence create of this user that wrote the presence
WritesPresence(username) ==
    /\ answer'.op = "CreateAndGet"
    /\ answer'.who = username
    /\ answer'.queried
    /\ \E p \in presences' : /\ p.Username = username
                             /\ p.Topic = FixNameTopic(answer'.topic)
                             /\ p.Date = now

\* the step is a Reset whose AskReset gave this token to this user
AsksReset(username, token) ==
    /\ answer'.op = "Reset"
    /\ answer'.status = 201
    /\ token # 0
    /\ token \notin issued
    /\ \E u \in users' : u.Username = username /\ u.Token = token

\* C19: a verification mail and a user-created event are dispatched only by
\* the step that inserts the user, a reset mail only by the step whose
\* AskReset succeeded, a presence event only by the step that wrote the
\* presence; the step that dispatches them writes the response while they have
\* not ended; and the end of a mail or an event, whatever its result, changes
\* neither the response nor anything persisted.
C19_SideEffectsAfterStateChange ==
    [][ /\ \A m \in mails' \ mails :
             IF "Token" \in DOMAIN m
             THEN AsksReset(m.Username, m.Token)
             ELSE \E u \in users' \ users : u.Username = m.Username /\ u.Email = m.Email
        /\ \A e \in events' \ events : Inserts(e.Username) \/ WritesPresence(e.Username)
        /\ \A e \in (mails' \ mails) \cup (events' \ events) :
             ~\E o \in outcomes' : o.effect = e
        /\ outcomes' # outcomes =>
             /\ answer' = answer
             /\ log' = log
             /\ users' = users
             /\ presences' = presences
             /\ issued' = issued
      ]_vars

\* a created user, a reset and a presence, whose mails and events ended, one
\* of them failing, while a Create was rejected
C19_Witness ==
    /\ \E m \in mails : "Token" \in DOMAIN m /\ Ended(m)
    /\ \E m \in mails : "Token" \notin DOMAIN m
    /\ \E e \in events : e.Username = "al"
    /\ \E o \in outcomes : o.result = "failed"
    /\ \E i \in 1..Len(log) : log[i].status >= 400
    /\ presences # {}

-----------------------------------------------------------------------------
(* The topic filter of listWithCriteria as a function of caller and path *)

\* the callers of this part; "a" is a prefix of "al"
CriteriaCallers == {"a", "al", "bo", "zz"}

\* the paths of this part
CriteriaTopicsIn ==
    {"", "Open", "/Open"} \cup
    {lead \o "Private/" \o owner \o rest :
        lead \in {"", "/"}, owner \in {"al", "bo"},
        rest \in {"", "/DM", "/DM/", "/DM/al", "/DM/bo", "/DM/bo/x", "/Tasks"}}

\* the filter listWithCriteria builds for a caller and a path
BuildCriteria(ctxUsername, criteriaTopic) ==
    /\ answer' = [op |-> "TopicCriteria", who |-> ctxUsername, topic |-> criteriaTopic,
                  wrong |-> TopicCriteria(ctxUsername, criteriaTopic).wrong,
                  criteria |-> TopicCriteria(ctxUsername, criteriaTopic).topic]
    /\ UNCHANGED <<cfgVars, outcomes, issued, users, mails, events, log, raceVars,
                   topics, presences, members, now>>

InitCriteria ==
    /\ username_from_email = FALSE
    /\ allowed_domains = ""
    /\ users = {}
    /\ mails = {}
    /\ events = {}
    /\ log = <<>>
    /\ pc = <<>>
    /\ req = <<>>
    /\ resp = <<>>
    /\ topics = <<>>
    /\ presences = {}
    /\ members = <<>>
    /\ now = 0
    /\ issued = {}
    /\ outcomes = {}
    /\ answer = NoRequest

NextCriteria ==
    \E ctxUsername \in CriteriaCallers, criteriaTopic \in CriteriaTopicsIn :
       BuildCriteria(ctxUsername, criteriaTopic)

SpecCriteria == InitCriteria /\ [][NextCriteria]_vars

-----------------------------------------------------------------------------
(* Claims on the topic filter *)

\* the requested path with its leading "/"
Slashed(path) == IF path = "" \/ HasPrefix(path, "/") THEN path ELSE "/" \o path

\* the DM prefix of a caller
PrefixDM(username) == "/Private/" \o username \o "/DM/"

\* what follows the DM prefix of the caller in the path
Peer(username, path) == SubSeq(path, Len(PrefixDM(username)) + 1, Len(path))

\* the filter is the path alone, or the path and the mirror of the caller
\* and the peer
MirrorFilter(o) ==
    Split(o.criteria, ",") =
       <<Slashed(o.topic),
         "/Private/" \o Peer(o.who, Slashed(o.topic)) \o "/DM/" \o o.who>>

\* the filter built for a path that is not a DM path of the caller
PlainFilter(o) == ~o.wrong /\ Split(o.criteria, ",") = <<Slashed(o.topic)>>

\* C20 as stated: a path outside /Private/<caller>/DM/ is filtered as itself
\* alone, another user's DM path included; a path inside it is filtered as
\* the path and the mirror path of a non-empty peer.
C20_FilterWithNonEmptyPeer ==
    answer.op = "TopicCriteria" =>
       IF ~HasPrefix(Slashed(answer.topic), PrefixDM(answer.who))
       THEN PlainFilter(answer)
       ELSE ~answer.wrong =>
               /\ MirrorFilter(answer)
               /\ Peer(answer.who, Slashed(answer.topic)) # ""

\* C20 amended: as above, the peer being what follows the prefix
\* /Private/<caller>/DM/ in the path, free of "/", and empty when the path is
\* that prefix itself.
C20_FilterNeverWidens ==
    answer.op = "TopicCriteria" =>
       IF ~HasPrefix(Slashed(answer.topic), PrefixDM(answer.who))
       THEN PlainFilter(answer)
       ELSE ~answer.wrong =>
               /\ MirrorFilter(answer)
               /\ Index(Peer(answer.who, Slashed(answer.topic)), "/") = -1

\* the filter of al on Private/al/DM/bo is that path and its mirror
C20_Witness ==
    /\ answer.op = "TopicCriteria"
    /\ answer.who = "al"
    /\ answer.topic = "Private/al/DM/bo"
    /\ answer.criteria = "/Private/al/DM/bo,/Private/bo/DM/al"

-----------------------------------------------------------------------------
(* Create, Rename and Update on one store *)

InitUnique ==
    /\ username_from_email = FALSE
    /\ allowed_domains = ""
    /\ users = {SysA, Bob}
    /\ mails = {}
    /\ events = {}
    /\ log = <<>>
    /\ pc = <<>>
    /\ req = <<>>
    /\ resp = <<>>
    /\ topics = <<>>
    /\ presences = {}
    /\ members = <<>>
    /\ now = 0
    /\ issued = {1, 2}
    /\ outcomes = {}
    /\ answer = LifeAnswer("", "", 0, "", 0)

NextUnique ==
    \/ \E userJSON \in EffectBodies : Create(userJSON)
    \/ \E username \in LifeUsernamesIn, newUsername \in NewUsernamesIn :
          Rename(username, newUsername)
    \/ \E username \in LifeUsernamesIn, newFullname \in NewFullnamesIn,
          newEmail \in NewEmailsIn :
          Update(username, newFullname, newEmail)

SpecUnique == InitUnique /\ [][NextUnique]_vars

-----------------------------------------------------------------------------
(* Claims on uniqueness over the lifecycle *)

\* no two of the given user documents share a username, an email or a fullname
AllDistinct(docs) ==
    \A u, v \in docs :
       u # v => /\ u.Username # v.Username
                /\ u.Email # v.Email
                /\ u.Fullname # v.Fullname

-----------------------------------------------------------------------------
(* Create, Convert, Rename and Update on one store *)

NextSystem ==
    \/ NextUnique
    \/ \E username \in LifeUsernamesIn : Convert(username, TRUE)

SpecSystem == InitUnique /\ [][NextSystem]_vars

\* C22 as stated: in every reachable state every system user has a username
\* that starts with "tat.system", so that ResetSystemUser, which rejects the
\* usernames without that prefix, serves every system user.
C22_SystemUsersKeepPrefix ==
    \A u \in users : u.IsSystem => HasPrefix(u.Username, "tat.system")

\* a system user whose username lacks the prefix
Unprefixed(u) == u.IsSystem /\ ~HasPrefix(u.Username, "tat.system")

\* C22 amended: Create, Convert and Update never make a system user whose
\* username lacks the prefix "tat.system"; the only step that makes one is a
\* successful Rename of a system user, which puts no condition on the new
\* username.
C22_OnlyRenameDropsPrefix ==
    [][ \A v \in users' :
           (Unprefixed(v) /\ ~\E u \in users : Unprefixed(u) /\ u.Username = v.Username)
           => /\ Handles("Rename")
              /\ log' = log
              /\ answer'.status = 201
              /\ UserFound(answer'.target)
              /\ UserOf(answer'.target).IsSystem
              /\ HasPrefix(answer'.target, "tat.system")
      ]_vars

\* the converted user tat.system.a has been renamed to rob and is still a
\* system user
C22_Witness ==
    /\ answer.op = "Rename"
    /\ answer.status = 201
    /\ answer.target = "tat.system.a"
    /\ UserFound("rob")
    /\ UserOf("rob").IsSystem
    /\ UserOf("rob").ConvertedBy = Root

-----------------------------------------------------------------------------
(* Two privilege requests racing: the read of the user and the update of   *)
(* the store are steps of their own                                        *)

\* the operations of the race
PrivilegeOps == {"Convert", "SetAdmin", "Archive"}

\* the targets of the race
PrivilegeUsernamesIn == {"tat.system.a", "bob"}

\* utils.GetCtxUsername(ctx) of each request
AdminOf(c) == IF c = "r1" THEN Root ELSE "boss"

\* the test each handler makes on the user it has read
InTargetState(op, user) ==
    IF op = "Convert" THEN user.IsSystem
    ELSE IF op = "SetAdmin" THEN user.IsAdmin
    ELSE user.IsArchived

\* the store update each handler calls
Updated(op, user, userAdmin) ==
    IF op = "Convert" THEN ConvertToSystem(user, userAdmin, TRUE)
    ELSE IF op = "SetAdmin" THEN ConvertToAdmin(user, userAdmin)
    ELSE ArchiveUser(user, userAdmin)

\* ctx.Bind and, in Convert, the test on the prefix
PrivilegeBind(c, op, username) ==
    /\ pc[c] = "Bind"
    /\ req' = [req EXCEPT ![c] = [op |-> op, username |-> username]]
    /\ IF op = "Convert" /\ ~HasPrefix(username, "tat.system")
       THEN Reply(c, 400, "prefix")
       ELSE pc' = [pc EXCEPT ![c] = "FindByUsername"] /\ UNCHANGED resp
    /\ UNCHANGED <<cfgVars, outcomes, issued, users, mails, events, log, topicVars>>

\* a read of the user that is followed by no test of its flag
PrivilegeFindNoTest(c) ==
    /\ pc[c] = "FindByUsername"
    /\ IF ~UserFound(req[c].username)
       THEN Reply(c, 400, "missing")
       ELSE pc' = [pc EXCEPT ![c] = "Update"] /\ UNCHANGED resp
    /\ UNCHANGED <<cfgVars, outcomes, issued, users, mails, events, log, req, topicVars>>

\* FindByUsername and the test of the flag on the user it returned
PrivilegeFind(c) ==
    /\ pc[c] = "FindByUsername"
    /\ IF ~UserFound(req[c].username)
       THEN Reply(c, 400, "missing")
       ELSE IF InTargetState(req[c].op, UserOf(req[c].username))
       THEN Reply(c, 400, "already")
       ELSE pc' = [pc EXCEPT ![c] = "Update"] /\ UNCHANGED resp
    /\ UNCHANGED <<cfgVars, outcomes, issued, users, mails, events, log, req, topicVars>>

\* the store update, applied to the document the store holds at that time
PrivilegeUpdate(c) ==
    /\ pc[c] = "Update"
    /\ req[c].op = "Convert" => Cardinality(issued) < MaxSecrets
    /\ IF Terminal(UserOf(req[c].username))
       THEN Reply(c, 400, "store") /\ UNCHANGED <<users, issued>>
       ELSE /\ users' = Replaced(UserOf(req[c].username),
                                 Updated(req[c].op, UserOf(req[c].username), AdminOf(c)))
            /\ issued' = IF req[c].op = "Convert" THEN issued \cup {NewSecret} ELSE issued
            /\ Reply(c, IF req[c].op = "Convert" THEN 200 ELSE 201, "")
    /\ UNCHANGED <<cfgVars, outcomes, mails, events, log, req, topicVars>>

InitPrivilege ==
    /\ username_from_email = FALSE
    /\ allowed_domains = ""
    /\ users = {SysA, Bob}
    /\ mails = {}
    /\ events = {}
    /\ log = <<>>
    /\ pc = [c \in Racers |-> "Bind"]
    /\ req = [c \in Racers |-> [op |-> "", username |-> ""]]
    /\ resp = [c \in Racers |-> NoAnswer]
    /\ topics = <<>>
    /\ presences = {}
    /\ members = <<>>
    /\ now = 0
    /\ issued = {1, 2}
    /\ outcomes = {}
    /\ answer = <<>>

NextPrivilege ==
    \E c \in Racers :
       \/ \E op \in PrivilegeOps, username \in PrivilegeUsernamesIn :
             PrivilegeBind(c, op, username)
       \/ PrivilegeFind(c)
       \/ PrivilegeUpdate(c)

SpecPrivilege == InitPrivilege /\ [][NextPrivilege]_vars

-----------------------------------------------------------------------------
(* Claims on the racing privilege requests *)

\* the request has been answered with a success
Succeeded(c) == pc[c] = "done" /\ resp[c].status \in {200, 201}

-----------------------------------------------------------------------------
(* Two Check requests racing: each lookup and each creation is a step of   *)
(* its own                                                                 *)

\* the topic the loop of checkTopics is at
CheckTopicName(c) == PrivateTopicName(req[c].username, topicNames[req[c].k])

\* what a Check has done so far: the topics its lookups found, those it has
\* created, those whose creation the store refused, and whether it has added
\* the user to the default group
NoCheckAnswer == [status |-> 0, found |-> {}, created |-> {}, failed |-> {}, added |-> FALSE]

\* the loop of checkTopics goes to the next short name, and checkDefaultGroup
\* follows the last one
NextTopic(c) ==
    IF req[c].k < Len(topicNames)
    THEN /\ req' = [req EXCEPT ![c].k = @ + 1]
         /\ pc' = [pc EXCEPT ![c] = "FindByTopic"]
    ELSE /\ pc' = [pc EXCEPT ![c] = "GetGroupsOnlyName"]
         /\ UNCHANGED req

\* ctx.JSON(http.StatusCreated, ...)
CheckAnswered(c) ==
    /\ pc' = [pc EXCEPT ![c] = "done"]
    /\ resp' = [resp EXCEPT ![c].status = 201]

\* ctx.Bind and FindByUsername
CheckBind(c, username, fixPrivateTopics, fixDefaultGroup) ==
    /\ pc[c] = "Bind"
    /\ req' = [req EXCEPT ![c] = [username |-> username,
                                  fixPrivateTopics |-> fixPrivateTopics,
                                  fixDefaultGroup |-> fixDefaultGroup, k |-> 1]]
    /\ IF ~UserFound(username)
       THEN /\ pc' = [pc EXCEPT ![c] = "done"]
            /\ resp' = [resp EXCEPT ![c].status = 400]
       ELSE /\ pc' = [pc EXCEPT ![c] = "FindByTopic"]
            /\ UNCHANGED resp
    /\ UNCHANGED <<cfgVars, outcomes, issued, users, mails, events, log, topicVars>>

\* a lookup after which the creation is called whenever fixing is asked
CheckFindByTopicNoTest(c) ==
    /\ pc[c] = "FindByTopic"
    /\ IF req[c].fixPrivateTopics
       THEN pc' = [pc EXCEPT ![c] = "CreatePrivateTopic"] /\ UNCHANGED req
       ELSE NextTopic(c)
    /\ resp' = [resp EXCEPT ![c].found =
                   IF CheckTopicName(c) \in DOMAIN topics THEN @ \cup {CheckTopicName(c)} ELSE @]
    /\ UNCHANGED <<cfgVars, outcomes, issued, users, mails, events, log, topicVars>>

\* topic.FindByTopic(topicName, false) and the test of its error
CheckFindByTopic(c) ==
    /\ pc[c] = "FindByTopic"
    /\ IF checkTopic(CheckTopicName(c) \in DOMAIN topics, req[c].fixPrivateTopics, TRUE).create
       THEN pc' = [pc EXCEPT ![c] = "CreatePrivateTopic"] /\ UNCHANGED req
       ELSE NextTopic(c)
    /\ resp' = [resp EXCEPT ![c].found =
                   IF CheckTopicName(c) \in DOMAIN topics THEN @ \cup {CheckTopicName(c)} ELSE @]
    /\ UNCHANGED <<cfgVars, outcomes, issued, users, mails, events, log, topicVars>>

\* userToCheck.CreatePrivateTopic(shortName); created is the answer of the
\* store, which may refuse any creation
CheckCreatePrivateTopic(c, created) ==
    /\ pc[c] = "CreatePrivateTopic"
    /\ topics' = IF created
                 THEN CreatePrivateTopic(topics, req[c].username, topicNames[req[c].k])
                 ELSE topics
    /\ resp' = [resp EXCEPT ![c].created = IF created THEN @ \cup {CheckTopicName(c)} ELSE @,
                            ![c].failed = IF created THEN @ ELSE @ \cup {CheckTopicName(c)}]
    /\ NextTopic(c)
    /\ UNCHANGED <<cfgVars, outcomes, issued, users, mails, events, log, presences, members, now, answer>>

\* userToCheck.GetGroupsOnlyName() and the search of the default group
CheckGetGroupsOnlyName(c, fetched) ==
    /\ pc[c] = "GetGroupsOnlyName"
    /\ IF checkDefaultGroup(req[c].fixDefaultGroup, req[c].username, fetched, TRUE).add
       THEN pc' = [pc EXCEPT ![c] = "AddDefaultGroup"] /\ UNCHANGED resp
       ELSE CheckAnswered(c)
    /\ UNCHANGED <<cfgVars, outcomes, issued, users, mails, events, log, req, topicVars>>

\* userToCheck.AddDefaultGroup(); added is the answer of the store
CheckAddDefaultGroup(c, added) ==
    /\ pc[c] = "AddDefaultGroup"
    /\ members' = IF added
                  THEN [members EXCEPT ![DefaultGroup] = Append(@, req[c].username)]
                  ELSE members
    /\ pc' = [pc EXCEPT ![c] = "done"]
    /\ resp' = [resp EXCEPT ![c].status = 201, ![c].added = added]
    /\ UNCHANGED <<cfgVars, outcomes, issued, users, mails, events, log, req, topics, presences, now, answer>>

InitCheckRace ==
    /\ username_from_email = FALSE
    /\ allowed_domains = ""
    /\ users = {Al}
    /\ mails = {}
    /\ events = {}
    /\ log = <<>>
    /\ pc = [c \in Racers |-> "Bind"]
    /\ req = [c \in Racers |-> [username |-> "", fixPrivateTopics |-> FALSE,
                                 fixDefaultGroup |-> FALSE, k |-> 1]]
    /\ resp = [c \in Racers |-> NoCheckAnswer]
    /\ \E existing \in SUBSET CanonicalTopics("al") :
          topics = [t \in existing |-> {"al"}]
    /\ presences = {}
    /\ members \in {[g \in {DefaultGroup} |-> <<>>], [g \in {DefaultGroup} |-> <<"al">>]}
    /\ now = 0
    /\ issued = {}
    /\ outcomes = {}
    /\ answer = <<>>

NextCheckRace ==
    \E c \in Racers :
       \/ \E username \in CheckUsernames, fixPrivateTopics \in BOOLEAN,
             fixDefaultGroup \in BOOLEAN :
             CheckBind(c, username, fixPrivateTopics, fixDefaultGroup)
       \/ CheckFindByTopic(c)
       \/ \E created \in BOOLEAN : CheckCreatePrivateTopic(c, created)
       \/ \E fetched \in BOOLEAN : CheckGetGroupsOnlyName(c, fetched)
       \/ \E added \in BOOLEAN : CheckAddDefaultGroup(c, added)

SpecCheckRace == InitCheckRace /\ [][NextCheckRace]_vars

-----------------------------------------------------------------------------
(* Claims on the racing Check requests *)

\* both requests were Checks of al that asked to fix the private topics, both
\* are answered and the store refused no creation
BothFixed ==
    \A c \in Racers :
       /\ pc[c] = "done"
       /\ resp[c].status = 201
       /\ req[c].fixPrivateTopics
       /\ resp[c].failed = {}

\* C24 as stated: however the lookups and creations of two Checks of the same
\* user interleave, no canonical topic is created by both, once both have
\* finished all four topics exist, and the user is not added to the default
\* group by both.
C24_CreatedAtMostOnce ==
    /\ resp["r1"].created \cap resp["r2"].created = {}
    /\ BothFixed => CanonicalTopics("al") \subseteq DOMAIN topics
    /\ ~(resp["r1"].added /\ resp["r2"].added)

\* C24 amended: a Check whose lookup finds a topic calls no creation for it,
\* and one that finds the user in the default group adds nobody; no topic is
\* ever removed, so once two fixing Checks have finished with no creation
\* refused all four topics exist.  Nothing keeps two Checks that both look
\* up before either creates from both creating.
C24_NoCreationOfFoundTopic ==
    [][ /\ \A c \in Racers :
             /\ (pc[c] = "FindByTopic" /\ CheckTopicName(c) \in DOMAIN topics)
                => pc'[c] # "CreatePrivateTopic"
             /\ (pc[c] = "GetGroupsOnlyName"
                    /\ DefaultGroup \in GetGroupsOnlyName(req[c].username))
                => pc'[c] # "AddDefaultGroup"
             /\ pc'[c] = "CreatePrivateTopic" => CheckTopicName(c)' \notin resp'[c].found
        /\ DOMAIN topics \subseteq DOMAIN topics'
        /\ BothFixed' => CanonicalTopics("al") \subseteq DOMAIN topics'
      ]_vars

\* r1 has created /Private/al, r2 has looked it up afterwards and found it,
\* and both have finished
C24_Witness ==
    /\ BothFixed
    /\ "/Private/al" \in resp["r1"].created
    /\ "/Private/al" \in resp["r2"].found
    /\ resp["r2"].created = {}
    /\ CanonicalTopics("al") \subseteq DOMAIN topics

-----------------------------------------------------------------------------
(* Claims on the order of the write and the listing of CreateAndGet *)

\* the record the CreateAndGet of the step writes when create does not abort
Written ==
    [Username |-> answer'.who, Topic |-> FixNameTopic(answer'.topic),
     Status |-> "online", Date |-> now]

\* create accepts the request of the step
WriteAccepted ==
    /\ TopicFound(answer'.topic)
    /\ UserFound(answer'.who)
    /\ IsUserReadAccess(answer'.topic, answer'.who)
    /\ answer'.error # "upsert"

\* the topic of the step is a DM topic of the caller with a wrong number of
\* parts
MalformedOwnDM ==
    /\ HasPrefix(AddSlash(answer'.topic), "/Private/" \o answer'.who \o "/DM/")
    /\ Len(Split(AddSlash(answer'.topic), "/")) # 5

====
